---------------------------- MODULE Spec2Model ----------------------------
(***************************************************************************)
(* Model of the session-and-trust core of the K3SS security service       *)
(* (src/task-5-security/security_service.py): the session store, the      *)
(* audit log, the login / logout / validate routes, the permission check, *)
(* the threat scan, the audit query and the read routes.                  *)
(*                                                                         *)
(* Spec        : the session routes, each handler run alone (one action   *)
(*               per handler), starting from the service after            *)
(*               InitialLogins logins.                                     *)
(* ScanSpec    : the threat scan and the audit query, each run alone.     *)
(* ServiceSpec : every route of the service, each run alone.              *)
(* ConcSpec    : two request threads of the threaded Flask server, each   *)
(*               executing its handler one dictionary operation at a time.*)
(* HashSpec    : callers of hash_password.                                 *)
(* QuerySpec   : audit queries executed one statement at a time by the    *)
(*               request threads while threat scans append to the log.    *)
(* BrowserSpec : the session routes of the browser service               *)
(*               (src/task-4-browser-web/browser_service.py); sessions is *)
(*               BrowserService.sessions, last the last call, its answer  *)
(*               and the calls answered so far.                           *)
(* StatusSpec  : the status routes of the integration gateway            *)
(*               (src/integration_gateway.py); services, held in the      *)
(*               variable sessions, is IntegrationService.services.       *)
(* WorkflowSpec: the gateway's complete_workflow route.                    *)
(***************************************************************************)
EXTENDS Integers, Sequences, FiniteSets, TLC

VARIABLES
    sessions,           \* SecurityService.sessions: session_id -> session_data
                        \* (BrowserSpec: BrowserService.sessions; StatusSpec,
                        \* WorkflowSpec: IntegrationService.services)
    audit_log,          \* SecurityService.audit_log: list of events
    security_policies,  \* SecurityService.security_policies
    now,                \* the wall clock read by datetime.now()
    last,               \* the last request handled and its response (history)
    pc,                 \* ConcSpec: position of each request thread
    req,                \* ConcSpec: the request each thread is serving
    loc,                \* ConcSpec: the local variables of each thread
    resp                \* ConcSpec: the response each thread has produced

vars == <<sessions, audit_log, security_policies, now, last, pc, req, loc, resp>>

-----------------------------------------------------------------------------
(* Bounds of the model *)

\* the audit log is explored up to this many events beyond the initial ones
MaxLog == 1
\* the clock is explored up to session_timeout + MaxLate
MaxLate == 1
\* the number of logins that precede the explored behaviour
InitialLogins == 1

\* the limit argument of an audit query is explored up to this value
MaxLimit == 3
\* the number of calls to the browser service that are explored
MaxCalls == 4

(* Program constants *)
password_min_length == 8
session_timeout == 3600
\* the default of the limit argument of get_audit_events
default_limit == 100
max_login_attempts == 5
\* the iteration count of hash_password
iterations == 100000

-----------------------------------------------------------------------------
(* Inputs *)

\* values secrets.token_hex(32) may return
Tokens == {"t1", "t2"}
\* session ids a client may send
ReqIds == Tokens
Users == {"alice"}
\* passwords as character sequences: lengths 5, 8 and 9
Passwords ==
    { <<"s","h","o","r","t">>,
      <<"l","o","n","g","p","a","s","s">>,
      <<"w","r","o","n","g","p","a","s","s">> }
\* the secrets of the logins of ConcSpec: the handler reads only the length
\* of the secret, so one secret per outcome of the length test
ThreadPasswords == {<<"s","h","o","r","t">>, <<"l","o","n","g","p","a","s","s">>}
\* the 'permissions' member of the login body: key absent, JSON null, or a list
PermInputs ==
    { [kind |-> "absent", items |-> <<>>],
      [kind |-> "null",   items |-> <<>>],
      [kind |-> "list",   items |-> <<>>],
      [kind |-> "list",   items |-> <<"read">>],
      [kind |-> "list",   items |-> <<"admin">>] }
Permissions == {"read", "write", "admin"}
\* the originating request context (remote address, User-Agent header)
Contexts ==
    { [remote_addr |-> "10.0.0.1", user_agent |-> "curl"] }

\* the bodies a client may send to the threat scan: the empty object
\* (entries = 0, also the body the handler assumes when none is sent) or an
\* object of one member, given by the member name, the string value and the
\* number of filler characters that end the value
Keys == { <<"q">>, <<"s","e","l","e","c","t">> }
Values ==
    { <<"o","k">>,
      <<"<","s","c","r","i","p","t",">","a","l","e","r","t","(","1",")","<","/","s","c","r","i","p","t",">">>,
      <<"<","S","C","R","I","P","T",">">>,
      <<"d","e","s","c","r","i","p","t","i","o","n">>,
      <<"u","n","i","o","n">>,
      <<"U","N","I","O","N"," ","S","E","L","E","C","T">>,
      <<"<","s","c","r","i","p","t",">"," ","u","n","i","o","n"," ","s","e","l","e","c","t">> }
Pads == {0, 9989, 9990}
EmptyDict == [entries |-> 0, key |-> <<>>, value |-> <<>>, pad |-> 0]
Payloads ==
    {EmptyDict}
    \cup {[entries |-> 1, key |-> k, value |-> v, pad |-> n] :
             k \in Keys, v \in Values, n \in Pads}
\* the limit argument of an audit query, as the integer the handler obtains
\* (100 when the argument is absent or not an integer)
LimitArgs == {default_limit} \cup (-1..MaxLimit)
\* the type argument of an audit query ("" when absent)
TypeArgs == {"", "session_created", "threat_scan"}

\* the data_type and operation members of a compliance request: absent, or a
\* string
DataTypeArgs ==
    { [given |-> FALSE, value |-> ""],
      [given |-> TRUE, value |-> "personal_data"],
      [given |-> TRUE, value |-> "usage_data"] }
OperationArgs ==
    { [given |-> FALSE, value |-> ""],
      [given |-> TRUE, value |-> "data_export"],
      [given |-> TRUE, value |-> "data_delete"] }

\* the salt argument of hash_password: omitted, the empty string, or a string
SaltArgs ==
    { [given |-> FALSE, value |-> ""],
      [given |-> TRUE, value |-> ""],
      [given |-> TRUE, value |-> "s1"],
      [given |-> TRUE, value |-> "s2"] }
\* values secrets.token_hex(16) may return
FreshSalts == {"r1", "r2"}

\* the instants at which the clock is observed: the start, and the instants
\* from one session_timeout later on
Instants == {0} \cup {session_timeout + k : k \in 0..MaxLate}
\* the clock after some time has passed inside one handler (at most one unit)
Elapsed(t) == {u \in Instants : u >= t /\ u <= t + 1}

-----------------------------------------------------------------------------
(* datetime.isoformat / datetime.fromisoformat: an instant is written as   *)
(* its hour and second-of-hour fields and read back from them.            *)

isoformat(t) == <<t \div 3600, t % 3600>>
fromisoformat(s) == s[1] * 3600 + s[2]

-----------------------------------------------------------------------------
(* Python helpers *)

\* x in list
InList(x, l) == \E k \in 1..Len(l) : l[k] = x

\* the value of an absent session in a response
NoSession ==
    [session_id |-> "", user_id |-> "", permissions |-> <<>>,
     created_at |-> <<0, 0>>, expires_at |-> <<0, 0>>, last_activity |-> <<0, 0>>,
     ip_address |-> "", user_agent |-> ""]

\* dict with key k set to v / with key k deleted
DictSet(d, k, v) == [i \in DOMAIN d \cup {k} |-> IF i = k THEN v ELSE d[i]]
DictDel(d, k) == [i \in DOMAIN d \ {k} |-> d[i]]

\* data.get('permissions', ['read', 'write']) in login
GetPermissions(perm) ==
    IF perm.kind = "absent" THEN [kind |-> "list", items |-> <<"read", "write">>]
    ELSE perm

\* faulty variant: the requested permissions are dropped
PermissionsAlwaysRead(perm) == <<"read">>

\* faulty variant: only a missing list is replaced, an empty one is kept
PermissionsUnlessNone(perm) ==
    IF perm.kind = "list" THEN perm.items ELSE <<"read">>

\* permissions or ["read"]
PermissionsOrRead(perm) ==
    IF perm.kind = "list" /\ Len(perm.items) > 0 THEN perm.items ELSE <<"read">>

-----------------------------------------------------------------------------
(* SecurityService *)

\* the event log_security_event appends, at clock t, in request context ctx
SecurityEvent(t, event_type, details, ctx) ==
    [timestamp |-> isoformat(t), event_type |-> event_type, details |-> details,
     ip_address |-> ctx.remote_addr, user_agent |-> ctx.user_agent]

log_security_event(log, t, event_type, details, ctx) ==
    Append(log, SecurityEvent(t, event_type, details, ctx))

\* session_data as create_session builds it; t1, t2, t3 are its three
\* successive readings of the clock
SessionData(token, user_id, perm, ctx, t1, t2, t3) ==
    [session_id |-> token,
     user_id |-> user_id,
     permissions |-> PermissionsOrRead(perm),
     created_at |-> isoformat(t1),
     expires_at |-> isoformat(t2 + security_policies.session_timeout),
     last_activity |-> isoformat(t3),
     ip_address |-> ctx.remote_addr,
     user_agent |-> ctx.user_agent]

\* faulty variant: the session is stored but no session_created is logged
create_session_unlogged(store, log, token, user_id, perm, ctx, t1, t2, t3, t4) ==
    LET session_data == SessionData(token, user_id, perm, ctx, t1, t2, t3)
    IN  [store |-> DictSet(store, token, session_data),
         log |-> log,
         session |-> session_data]

\* create_session: stores the session under the generated token and logs
\* session_created (clock reading t4); returns the store, the log and the session
create_session(store, log, token, user_id, perm, ctx, t1, t2, t3, t4) ==
    LET session_data == SessionData(token, user_id, perm, ctx, t1, t2, t3)
    IN  [store |-> DictSet(store, token, session_data),
         log |-> log_security_event(log, t4, "session_created",
                     [user_id |-> user_id, session_id |-> token], ctx),
         session |-> session_data]

\* faulty variant: an expired session is reported but left in the store
validate_session_keeps_expired(store, session_id, t1, t2) ==
    IF session_id \notin DOMAIN store
    THEN [store |-> store, error |-> "Invalid session", session |-> NoSession]
    ELSE LET session == store[session_id]
         IN  IF t1 > fromisoformat(session.expires_at)
             THEN [store |-> store, error |-> "Session expired", session |-> NoSession]
             ELSE LET refreshed == [session EXCEPT !.last_activity = isoformat(t2)]
                  IN  [store |-> DictSet(store, session_id, refreshed),
                       error |-> "", session |-> refreshed]

\* faulty variant: activity extends the deadline (sliding expiry)
validate_session_sliding(store, session_id, t1, t2) ==
    IF session_id \notin DOMAIN store
    THEN [store |-> store, error |-> "Invalid session", session |-> NoSession]
    ELSE LET session == store[session_id]
         IN  IF t1 > fromisoformat(session.expires_at)
             THEN [store |-> DictDel(store, session_id),
                   error |-> "Session expired", session |-> NoSession]
             ELSE LET refreshed ==
                        [session EXCEPT !.last_activity = isoformat(t2),
                                        !.expires_at = isoformat(t2 + session_timeout)]
                  IN  [store |-> DictSet(store, session_id, refreshed),
                       error |-> "", session |-> refreshed]

\* faulty variant: an unknown id is reported as expired
validate_session_unknown_expired(store, session_id, t1, t2) ==
    IF session_id \notin DOMAIN store
    THEN [store |-> store, error |-> "Session expired", session |-> NoSession]
    ELSE LET session == store[session_id]
         IN  IF t1 > fromisoformat(session.expires_at)
             THEN [store |-> DictDel(store, session_id),
                   error |-> "Session expired", session |-> NoSession]
             ELSE LET refreshed == [session EXCEPT !.last_activity = isoformat(t2)]
                  IN  [store |-> DictSet(store, session_id, refreshed),
                       error |-> "", session |-> refreshed]

\* faulty variant: the session is expired from its deadline on (>=)
validate_session_expired_at_deadline(store, session_id, t1, t2) ==
    IF session_id \notin DOMAIN store
    THEN [store |-> store, error |-> "Invalid session", session |-> NoSession]
    ELSE LET session == store[session_id]
         IN  IF t1 >= fromisoformat(session.expires_at)
             THEN [store |-> DictDel(store, session_id),
                   error |-> "Session expired", session |-> NoSession]
             ELSE LET refreshed == [session EXCEPT !.last_activity = isoformat(t2)]
                  IN  [store |-> DictSet(store, session_id, refreshed),
                       error |-> "", session |-> refreshed]

\* validate_session: t1 is the clock at the expiry test, t2 at the refresh;
\* error is the message of the ValueError raised, "" when none is
validate_session(store, session_id, t1, t2) ==
    IF session_id \notin DOMAIN store
    THEN [store |-> store, error |-> "Invalid session", session |-> NoSession]
    ELSE LET session == store[session_id]
             expires_at == fromisoformat(session.expires_at)
         IN  IF t1 > expires_at
             THEN [store |-> DictDel(store, session_id),
                   error |-> "Session expired", session |-> NoSession]
             ELSE LET refreshed == [session EXCEPT !.last_activity = isoformat(t2)]
                  IN  [store |-> DictSet(store, session_id, refreshed),
                       error |-> "", session |-> refreshed]

\* faulty variant: the admin tag is not honoured
check_permissions_no_admin(store, session_id, required_permission, t1, t2) ==
    LET v == validate_session_keeps_expired(store, session_id, t1, t2)
        w == IF v.error = "Session expired"
             THEN [v EXCEPT !.store = DictDel(store, session_id)] ELSE v
    IN  [store |-> w.store,
         granted |-> IF w.error = ""
                     THEN InList(required_permission, w.session.permissions)
                     ELSE FALSE]

\* check_permissions
check_permissions(store, session_id, required_permission, t1, t2) ==
    LET v == validate_session(store, session_id, t1, t2)
    IN  [store |-> v.store,
         granted |-> IF v.error = ""
                     THEN \/ InList(required_permission, v.session.permissions)
                          \/ InList("admin", v.session.permissions)
                     ELSE FALSE]

\* faulty variant: logout reports success and logs it but keeps the session
logout_session_keeps(store, log, session_id, t, ctx) ==
    IF session_id \in DOMAIN store
    THEN [store |-> store,
          log |-> log_security_event(log, t, "session_destroyed",
                      [session_id |-> session_id,
                       user_id |-> store[session_id].user_id], ctx),
          status |-> 200, error |-> ""]
    ELSE [store |-> store, log |-> log, status |-> 400, error |-> "Invalid session"]

\* the body of the logout route: t is the clock when the event is logged;
\* status and error are those of the response
logout_session(store, log, session_id, t, ctx) ==
    IF session_id \in DOMAIN store
    THEN LET user_id == store[session_id].user_id
         IN  [store |-> DictDel(store, session_id),
              log |-> log_security_event(log, t, "session_destroyed",
                          [session_id |-> session_id, user_id |-> user_id], ctx),
              status |-> 200, error |-> ""]
    ELSE [store |-> store, log |-> log, status |-> 400, error |-> "Invalid session"]

-----------------------------------------------------------------------------
(* Text: a Python str is a sequence of characters.  A long text is kept as  *)
(* a head, a run of `fill` filler characters "a", and a tail.               *)

Upper == <<"A","B","C","D","E","F","G","H","I","J","K","L","M","N","O","P","Q","R","S","T","U","V","W","X","Y","Z">>
LowerCase == <<"a","b","c","d","e","f","g","h","i","j","k","l","m","n","o","p","q","r","s","t","u","v","w","x","y","z">>

\* str.lower(), character by character
lower_char(c) ==
    IF \E k \in 1..Len(Upper) : Upper[k] = c
    THEN LowerCase[CHOOSE k \in 1..Len(Upper) : Upper[k] = c]
    ELSE c
lower(text) ==
    [head |-> [k \in 1..Len(text.head) |-> lower_char(text.head[k])],
     fill |-> text.fill,
     tail |-> [k \in 1..Len(text.tail) |-> lower_char(text.tail[k])]]

\* word in s, for character sequences
SubString(word, s) ==
    \E k \in 0..(Len(s) - Len(word)) : SubSeq(s, k + 1, k + Len(word)) = word

\* word in text, for a word without the filler character: it lies in the head,
\* in the tail, or across both when no filler separates them
Contains(word, text) ==
    IF text.fill = 0 THEN SubString(word, text.head \o text.tail)
    ELSE SubString(word, text.head) \/ SubString(word, text.tail)

\* len(text)
len(text) == Len(text.head) + text.fill + Len(text.tail)

\* str(request_data): the repr of the dict, {} or {'key': 'value'}
str(request_data) ==
    IF request_data.entries = 0
    THEN [head |-> <<"{", "}">>, fill |-> 0, tail |-> <<>>]
    ELSE [head |-> <<"{", "'">> \o request_data.key \o <<"'", ":", " ", "'">>
                     \o request_data.value,
          fill |-> request_data.pad,
          tail |-> <<"'", "}">>]

\* the keywords of detect_threats
script == <<"s","c","r","i","p","t">>
union == <<"u","n","i","o","n">>
select == <<"s","e","l","e","c","t">>

\* the weights, the size ceiling and the thresholds of detect_threats
xss_weight == 30
sql_injection_weight == 50
oversized_weight == 20
max_request_length == 10000
block_threshold == 70
monitor_threshold == 30

\* the three tests of detect_threats
IsXss(request_data) == Contains(script, lower(str(request_data)))
IsSqlInjection(request_data) ==
    /\ Contains(union, lower(str(request_data)))
    /\ Contains(select, lower(str(request_data)))
IsOversized(request_data) == len(str(request_data)) > max_request_length

\* faulty variant: monitor from the monitor threshold on
ActionOf_monitor_inclusive(risk_score) ==
    IF risk_score > block_threshold THEN "block"
    ELSE IF risk_score >= monitor_threshold THEN "monitor"
    ELSE "allow"

\* faulty variant: block from the block threshold on
ActionOf_block_inclusive(risk_score) ==
    IF risk_score >= block_threshold THEN "block"
    ELSE IF risk_score > monitor_threshold THEN "monitor"
    ELSE "allow"

\* "block" if risk_score > 70 else "monitor" if risk_score > 30 else "allow"
ActionOf(risk_score) ==
    IF risk_score > block_threshold THEN "block"
    ELSE IF risk_score > monitor_threshold THEN "monitor"
    ELSE "allow"

\* faulty variant: the tests short-circuit, only the first that matches counts
detect_threats_first_match(request_data) ==
    LET threats ==
            IF IsXss(request_data) THEN <<"potential_xss">>
            ELSE IF IsSqlInjection(request_data) THEN <<"potential_sql_injection">>
            ELSE IF IsOversized(request_data) THEN <<"oversized_request">>
            ELSE <<>>
        risk_score ==
            IF IsXss(request_data) THEN xss_weight
            ELSE IF IsSqlInjection(request_data) THEN sql_injection_weight
            ELSE IF IsOversized(request_data) THEN oversized_weight
            ELSE 0
    IN  [threats_detected |-> threats,
         risk_score |-> risk_score,
         action |-> ActionOf(risk_score)]

\* SecurityService.detect_threats
detect_threats(request_data) ==
    LET threats ==
            (IF IsXss(request_data) THEN <<"potential_xss">> ELSE <<>>)
            \o (IF IsSqlInjection(request_data)
                THEN <<"potential_sql_injection">> ELSE <<>>)
            \o (IF IsOversized(request_data) THEN <<"oversized_request">> ELSE <<>>)
        risk_score ==
            (IF IsXss(request_data) THEN xss_weight ELSE 0)
            + (IF IsSqlInjection(request_data) THEN sql_injection_weight ELSE 0)
            + (IF IsOversized(request_data) THEN oversized_weight ELSE 0)
    IN  [threats_detected |-> threats,
         risk_score |-> risk_score,
         action |-> ActionOf(risk_score)]

\* events[start:], the slice of a list from a start index to its end
SliceFrom(events, start) ==
    LET n == Len(events)
        first == IF start < 0 THEN (IF n + start < 0 THEN 0 ELSE n + start)
                 ELSE (IF start > n THEN n ELSE start)
    IN  SubSeq(events, first + 1, n)

\* [e for e in events if e['event_type'] == event_type]
RECURSIVE FilterByType(_, _)
FilterByType(events, event_type) ==
    IF events = <<>> THEN <<>>
    ELSE (IF Head(events).event_type = event_type THEN <<Head(events)>> ELSE <<>>)
         \o FilterByType(Tail(events), event_type)

\* the body of get_audit_events: limit is the integer argument (the default
\* when absent or not an integer), event_type the type argument ("" when absent)
audit_events(log, limit, event_type) ==
    LET events == IF event_type # "" THEN FilterByType(log, event_type) ELSE log
    IN  [total_events |-> Len(log),
         filtered_events |-> Len(events),
         events |-> SliceFrom(events, 0 - limit)]

\* hashlib.pbkdf2_hmac(...).hex(): the digest as a term of its inputs (equal
\* digests exactly for equal inputs)
pbkdf2_hmac(hash_name, password, salt, n) ==
    <<"pbkdf2_hmac", hash_name, password, salt, n>>

\* SecurityService.hash_password; fresh is the value secrets.token_hex(16)
\* returns when it is called
hash_password(password, salt, fresh) ==
    LET used == IF ~salt.given \/ salt.value = "" THEN fresh ELSE salt.value
    IN  [hash |-> pbkdf2_hmac("sha256", password, used, iterations),
         salt |-> used,
         algorithm |-> "PBKDF2-SHA256",
         iterations |-> iterations]

\* SecurityService.compliance_check
compliance_check(data_type, operation) ==
    [gdpr_compliant |-> TRUE,
     ccpa_compliant |-> TRUE,
     soc2_compliant |-> TRUE,
     requirements |->
        (IF data_type = "personal_data"
         THEN <<"user_consent_required", "data_retention_policy", "right_to_deletion">>
         ELSE <<>>)
        \o (IF operation = "data_export" THEN <<"data_portability">> ELSE <<>>)]

-----------------------------------------------------------------------------
(* The record of the last request and its response *)

Response(op, id, status, error, session) ==
    [op |-> op, id |-> id, status |-> status, error |-> error,
     session |-> session, granted |-> FALSE]

\* the response of a route that answers with a JSON body
Reply(op, status, body) ==
    [op |-> op, id |-> "", status |-> status, error |-> "",
     session |-> NoSession, granted |-> FALSE, body |-> body]

-----------------------------------------------------------------------------
(* Spec: request handlers, each run alone *)

ThreadIds == {1, 2}
Idle == [t \in ThreadIds |-> "idle"]
NoPerm == [kind |-> "none", items |-> <<>>]
NoContext == [remote_addr |-> "", user_agent |-> ""]
\* a thread's request: the route, the session id it names (for login: the
\* token create_session generated) and the login body
NoReq == [op |-> "", id |-> "", user |-> "", password |-> <<>>,
          perm |-> NoPerm, ctx |-> NoContext]
\* a thread's locals: the session object it holds, whether that object is
\* still the one in the store (held), whether it was refreshed after leaving
\* the store (stale), user_id of logout, the clock readings t1 (expiry test /
\* created_at), t2 (refresh / expires_at), t3 (last_activity), and the entry of
\* its id when the request arrived (start)
NoLoc == [session |-> NoSession, held |-> FALSE, stale |-> FALSE, user_id |-> "",
          t1 |-> 0, t2 |-> 0, t3 |-> 0, start |-> << >>]

\* the service after n earlier logins of alice at clock 0, each under its own
\* token (n = 0: the service as constructed)
Earlier(n) ==
    LET perm == [kind |-> "list", items |-> <<"read", "write">>]
        ctx == CHOOSE c \in Contexts : TRUE
        s0 == [store |-> << >>, log |-> << >>]
        s1 == create_session(s0.store, s0.log, "t1", "alice", perm, ctx, 0, 0, 0, 0)
        s2 == create_session(s1.store, s1.log, "t2", "alice", perm, ctx, 0, 0, 0, 0)
    IN  IF n = 0 THEN s0 ELSE IF n = 1 THEN [store |-> s1.store, log |-> s1.log]
        ELSE [store |-> s2.store, log |-> s2.log]

\* the log is explored up to MaxLog events beyond those of the earlier logins
LogFull == Len(audit_log) >= InitialLogins + MaxLog

\* Spec starts after the earlier logins
Init ==
    /\ security_policies =
          [password_min_length |-> password_min_length,
           session_timeout |-> session_timeout,
           max_login_attempts |-> max_login_attempts,
           require_2fa |-> FALSE,
           encryption_algorithm |-> "AES-256"]
    /\ sessions = Earlier(InitialLogins).store
    /\ audit_log = Earlier(InitialLogins).log
    /\ now = 0
    /\ last = Response("", "", 0, "", NoSession)
    /\ pc = Idle
    /\ req = [t \in ThreadIds |-> NoReq]
    /\ loc = [t \in ThreadIds |-> NoLoc]
    /\ resp = [t \in ThreadIds |-> Response("", "", 0, "", NoSession)]

threadVars == <<pc, req, loc, resp>>

\* time passes between requests
Tick ==
    /\ \E u \in Instants : u > now /\ now' = u
    /\ UNCHANGED <<sessions, audit_log, security_policies, last, threadVars>>

\* faulty variant: a rejected login is answered but not logged
login_failure_unlogged(username, password, perm, ctx) ==
    /\ ~LogFull
    /\ IF Len(password) >= security_policies.password_min_length
       THEN \E token \in Tokens :
            \E t2 \in Elapsed(now) : \E t3 \in Elapsed(t2) : \E t4 \in Elapsed(t3) :
              LET c == create_session(sessions, audit_log, token, username,
                                      GetPermissions(perm), ctx, now, t2, t3, t4)
              IN  /\ sessions' = c.store
                  /\ audit_log' = c.log
                  /\ now' = t4
                  /\ last' = Response("login", token, 200, "", c.session)
       ELSE /\ last' = Response("login", "", 401, "Authentication failed", NoSession)
            /\ UNCHANGED <<sessions, audit_log, now>>
    /\ UNCHANGED <<security_policies, threadVars>>

\* faulty variant: the rejected secret is written into the login_failed event
login_logs_secret(username, password, perm, ctx) ==
    /\ ~LogFull
    /\ IF Len(password) >= security_policies.password_min_length
       THEN \E token \in Tokens :
            \E t2 \in Elapsed(now) : \E t3 \in Elapsed(t2) : \E t4 \in Elapsed(t3) :
              LET c == create_session(sessions, audit_log, token, username,
                                      GetPermissions(perm), ctx, now, t2, t3, t4)
              IN  /\ sessions' = c.store
                  /\ audit_log' = c.log
                  /\ now' = t4
                  /\ last' = Response("login", token, 200, "", c.session)
       ELSE /\ audit_log' = log_security_event(audit_log, now, "login_failed",
                               [username |-> username, reason |-> "weak_password",
                                password |-> password], ctx)
            /\ last' = Response("login", "", 401, "Authentication failed", NoSession)
            /\ UNCHANGED <<sessions, now>>
    /\ UNCHANGED <<security_policies, threadVars>>

\* POST /auth/login
login(username, password, perm, ctx) ==
    /\ ~LogFull
    /\ IF Len(password) >= security_policies.password_min_length
       THEN \E token \in Tokens :
            \E t2 \in Elapsed(now) : \E t3 \in Elapsed(t2) : \E t4 \in Elapsed(t3) :
              LET c == create_session(sessions, audit_log, token, username,
                                      GetPermissions(perm), ctx, now, t2, t3, t4)
              IN  /\ sessions' = c.store
                  /\ audit_log' = c.log
                  /\ now' = t4
                  /\ last' = Response("login", token, 200, "", c.session)
       ELSE /\ audit_log' = log_security_event(audit_log, now, "login_failed",
                               [username |-> username, reason |-> "weak_password"], ctx)
            /\ last' = Response("login", "", 401, "Authentication failed", NoSession)
            /\ UNCHANGED <<sessions, now>>
    /\ UNCHANGED <<security_policies, threadVars>>

\* POST /auth/logout
logout(session_id, ctx) ==
    /\ session_id \in DOMAIN sessions => ~LogFull
    /\ LET r == logout_session(sessions, audit_log, session_id, now, ctx)
       IN  /\ sessions' = r.store
           /\ audit_log' = r.log
           /\ last' = Response("logout", session_id, r.status, r.error, NoSession)
    /\ UNCHANGED <<security_policies, now, threadVars>>

\* POST /auth/validate
validate(session_id) ==
    /\ \E t2 \in Elapsed(now) :
         LET v == validate_session(sessions, session_id, now, t2)
         IN  /\ sessions' = v.store
             /\ now' = t2
             /\ last' = Response("validate", session_id,
                                 IF v.error = "" THEN 200 ELSE 401, v.error, v.session)
    /\ UNCHANGED <<audit_log, security_policies, threadVars>>

\* SecurityService.check_permissions called by a protected operation
has_permission(session_id, required_permission) ==
    /\ \E t2 \in Elapsed(now) :
         LET c == check_permissions(sessions, session_id, required_permission, now, t2)
         IN  /\ sessions' = c.store
             /\ now' = t2
             /\ last' = [Response("check_permissions", session_id, 0, "", NoSession)
                            EXCEPT !.granted = c.granted]
    /\ UNCHANGED <<audit_log, security_policies, threadVars>>

Next ==
    \/ Tick
    \/ \E username \in Users, password \in Passwords, perm \in PermInputs, ctx \in Contexts :
         login(username, password, perm, ctx)
    \/ \E session_id \in ReqIds, ctx \in Contexts : logout(session_id, ctx)
    \/ \E session_id \in ReqIds : validate(session_id)
    \/ \E session_id \in ReqIds, required \in Permissions :
         has_permission(session_id, required)

Spec == Init /\ [][Next]_vars

-----------------------------------------------------------------------------
(* The scan, audit and read routes, each run alone.                         *)
(* ScanSpec    : the threat scan and the audit query.                       *)
(* ServiceSpec : every route of the service.                                *)

\* detect_threats on the bodies of the model, computed once
Analysis == [request_data \in Payloads |-> detect_threats(request_data)]

\* faulty variant: a scan whose verdict is "block" is answered but not logged
threat_scan_block_unlogged(request_data, ctx) ==
    /\ ~LogFull
    /\ LET threat_analysis == Analysis[request_data]
       IN  /\ audit_log' =
                 IF threat_analysis.action = "block" THEN audit_log
                 ELSE log_security_event(audit_log, now, "threat_scan",
                                         threat_analysis, ctx)
           /\ last' = Reply("threat_scan", 200, threat_analysis)
    /\ UNCHANGED <<sessions, security_policies, now, threadVars>>

\* POST /security/threat-scan
threat_scan(request_data, ctx) ==
    /\ ~LogFull
    /\ LET threat_analysis == Analysis[request_data]
       IN  /\ audit_log' = log_security_event(audit_log, now, "threat_scan",
                                              threat_analysis, ctx)
           /\ last' = Reply("threat_scan", 200, threat_analysis)
    /\ UNCHANGED <<sessions, security_policies, now, threadVars>>

\* faulty variant: the query hands the events over and drops them from the log
get_audit_events_draining(limit, event_type) ==
    /\ last' = Reply("audit_events", 200, audit_events(audit_log, limit, event_type))
    /\ audit_log' = SubSeq(audit_log, 1,
                           Len(audit_log)
                             - Len(audit_events(audit_log, limit, event_type).events))
    /\ UNCHANGED <<sessions, security_policies, now, threadVars>>

\* GET /audit/events
get_audit_events(limit, event_type) ==
    /\ last' = Reply("audit_events", 200, audit_events(audit_log, limit, event_type))
    /\ UNCHANGED <<sessions, audit_log, security_policies, now, threadVars>>

\* faulty variant: the handler blanks a value of the dict it returns, which is
\* the policy dict itself
get_security_policies_redacting ==
    /\ security_policies' = [security_policies EXCEPT !.encryption_algorithm = ""]
    /\ last' = Reply("policies", 200, security_policies')
    /\ UNCHANGED <<sessions, audit_log, now, threadVars>>

\* GET /security/policies
get_security_policies ==
    /\ last' = Reply("policies", 200, security_policies)
    /\ UNCHANGED <<sessions, audit_log, security_policies, now, threadVars>>

\* GET /security/sessions: the listed sessions, as the set of their entries
list_sessions ==
    /\ last' = Reply("sessions", 200,
                     [total_sessions |-> Cardinality(DOMAIN sessions),
                      sessions |->
                        {[session_id |-> sid,
                          user_id |-> sessions[sid].user_id,
                          created_at |-> sessions[sid].created_at,
                          last_activity |-> sessions[sid].last_activity] :
                            sid \in DOMAIN sessions}])
    /\ UNCHANGED <<sessions, audit_log, security_policies, now, threadVars>>

\* GET /health
health ==
    /\ last' = Reply("health", 200,
                     [timestamp |-> isoformat(now),
                      active_sessions |-> Cardinality(DOMAIN sessions),
                      audit_events |-> Len(audit_log),
                      security_policies |-> security_policies])
    /\ UNCHANGED <<sessions, audit_log, security_policies, now, threadVars>>

\* faulty variant: the requirements list is shared between calls and grows
compliance_check_route_accumulating(data_type, operation) ==
    /\ IF data_type.given /\ operation.given
       THEN last' = Reply("compliance", 200,
                      [compliance_check(data_type.value, operation.value)
                         EXCEPT !.requirements =
                           (IF last.op = "compliance" /\ last.status = 200
                            THEN last.body.requirements ELSE <<>>) \o @])
       ELSE last' = [Reply("compliance", 400, <<>>) EXCEPT
                       !.error = "Missing 'data_type' or 'operation' in request"]
    /\ UNCHANGED <<sessions, audit_log, security_policies, now, threadVars>>

\* POST /compliance/check
compliance_check_route(data_type, operation) ==
    /\ IF data_type.given /\ operation.given
       THEN last' = Reply("compliance", 200,
                      compliance_check(data_type.value, operation.value))
       ELSE last' = [Reply("compliance", 400, <<>>) EXCEPT
                       !.error = "Missing 'data_type' or 'operation' in request"]
    /\ UNCHANGED <<sessions, audit_log, security_policies, now, threadVars>>

\* ScanSpec: the threat scan on every body of the model, and the audit query
ScanNext ==
    \/ Tick
    \/ \E request_data \in Payloads, ctx \in Contexts : threat_scan(request_data, ctx)
    \/ \E limit \in LimitArgs, event_type \in TypeArgs :
         get_audit_events(limit, event_type)

ScanSpec == Init /\ [][ScanNext]_vars

\* the inputs of ServiceSpec: a login body without a permissions member, a
\* scan body that is allowed and one that is blocked, an audit query without a
\* limit argument
ServicePerms == {perm \in PermInputs : perm.kind = "absent"}
ServicePayloads ==
    { EmptyDict,
      [entries |-> 1, key |-> <<"q">>, pad |-> 0,
       value |-> <<"<","s","c","r","i","p","t",">"," ","u","n","i","o","n"," ","s","e","l","e","c","t">>] }
ServiceLimits == {default_limit}
\* the secrets of the logins of ServiceSpec: two per outcome of the length test
ServicePasswords == Passwords \cup {<<"t","i","n","y">>}

ServiceNext ==
    \/ Tick
    \/ \E username \in Users, password \in ServicePasswords, perm \in ServicePerms,
          ctx \in Contexts :
         login(username, password, perm, ctx)
    \/ \E session_id \in ReqIds, ctx \in Contexts : logout(session_id, ctx)
    \/ \E session_id \in ReqIds : validate(session_id)
    \/ \E session_id \in ReqIds, required \in Permissions :
         has_permission(session_id, required)
    \/ \E data_type \in DataTypeArgs, operation \in OperationArgs :
         compliance_check_route(data_type, operation)
    \/ \E request_data \in ServicePayloads, ctx \in Contexts :
         threat_scan(request_data, ctx)
    \/ \E limit \in ServiceLimits, event_type \in TypeArgs :
         get_audit_events(limit, event_type)
    \/ get_security_policies
    \/ list_sessions
    \/ health

ServiceSpec == Init /\ [][ServiceNext]_vars

-----------------------------------------------------------------------------
(* HashSpec: two callers of SecurityService.hash_password; req holds the     *)
(* arguments of a caller's latest call and resp the record it returned       *)

HashInit ==
    /\ security_policies =
          [password_min_length |-> password_min_length,
           session_timeout |-> session_timeout,
           max_login_attempts |-> max_login_attempts,
           require_2fa |-> FALSE,
           encryption_algorithm |-> "AES-256"]
    /\ sessions = << >>
    /\ audit_log = << >>
    /\ now = 0
    /\ last = Response("", "", 0, "", NoSession)
    /\ pc = Idle
    /\ req = [t \in ThreadIds |-> NoReq]
    /\ loc = [t \in ThreadIds |-> NoLoc]
    /\ resp = [t \in ThreadIds |-> Response("", "", 0, "", NoSession)]

\* caller t calls hash_password(password, salt)
hash_password_call(t, password, salt) ==
    /\ \E fresh \in FreshSalts :
         resp' = [resp EXCEPT ![t] = hash_password(password, salt, fresh)]
    /\ req' = [req EXCEPT ![t] =
                  [op |-> "hash_password", password |-> password, salt |-> salt]]
    /\ pc' = [pc EXCEPT ![t] = "done"]
    /\ UNCHANGED <<sessions, audit_log, security_policies, now, last, loc>>

HashNext ==
    \E t \in ThreadIds, password \in Passwords, salt \in SaltArgs :
        hash_password_call(t, password, salt)

HashSpec == HashInit /\ [][HashNext]_vars

-----------------------------------------------------------------------------
(* ConcSpec: the threaded server.  Each thread serves one request; a step is *)
(* one statement of the handler, whose dictionary operation is atomic.       *)
(* Position names are the source lines of the statement about to run.        *)

ConcInit ==
    /\ security_policies =
          [password_min_length |-> password_min_length,
           session_timeout |-> session_timeout,
           max_login_attempts |-> max_login_attempts,
           require_2fa |-> FALSE,
           encryption_algorithm |-> "AES-256"]
    /\ \E n \in 0..InitialLogins :
          /\ sessions = Earlier(n).store
          /\ audit_log = Earlier(n).log
    /\ now = 0
    /\ last = Response("", "", 0, "", NoSession)
    /\ pc = Idle
    /\ req = [t \in ThreadIds |-> NoReq]
    /\ loc = [t \in ThreadIds |-> NoLoc]
    /\ resp = [t \in ThreadIds |-> Response("", "", 0, "", NoSession)]

\* the entry of id i in the store, as a store of at most one entry
Entry(store, i) == [j \in DOMAIN store \cap {i} |-> store[j]]

\* the object stored under id i leaves the store (deleted or replaced) by a
\* step of thread t: the other threads holding it keep an orphan
Orphan(l, i, t) ==
    [u \in ThreadIds |->
        IF u # t /\ req[u].id = i /\ l[u].held THEN [l[u] EXCEPT !.held = FALSE]
        ELSE l[u]]

\* thread t ends with the given response
Finish(t, status, error, session) ==
    /\ pc' = [pc EXCEPT ![t] = "done"]
    /\ resp' = [resp EXCEPT ![t] = Response(req[t].op, req[t].id, status, error, session)]

\* a request arrives at an idle thread
Start(t) ==
    /\ pc[t] = "idle"
    /\ \/ \E i \in ReqIds :
            /\ req' = [req EXCEPT ![t] = [NoReq EXCEPT !.op = "validate", !.id = i]]
            /\ loc' = [loc EXCEPT ![t] = [NoLoc EXCEPT !.start = Entry(sessions, i)]]
            /\ pc' = [pc EXCEPT ![t] = "L86"]
       \/ \E i \in ReqIds, ctx \in Contexts :
            /\ req' = [req EXCEPT ![t] =
                          [NoReq EXCEPT !.op = "logout", !.id = i, !.ctx = ctx]]
            /\ loc' = [loc EXCEPT ![t] = [NoLoc EXCEPT !.start = Entry(sessions, i)]]
            /\ pc' = [pc EXCEPT ![t] = "L236"]
       \/ \E username \in Users, password \in ThreadPasswords, perm \in PermInputs,
             ctx \in Contexts :
            /\ req' = [req EXCEPT ![t] =
                          [NoReq EXCEPT !.op = "login", !.user = username,
                                        !.password = password, !.perm = perm,
                                        !.ctx = ctx]]
            /\ loc' = [loc EXCEPT ![t] = NoLoc]
            /\ pc' = [pc EXCEPT ![t] = "L216"]
    /\ UNCHANGED <<sessions, audit_log, security_policies, now, last, resp>>

\* validate_session line 86: if session_id not in self.sessions: raise
V86(t) ==
    /\ pc[t] = "L86"
    /\ IF req[t].id \notin DOMAIN sessions
       THEN Finish(t, 401, "Invalid session", NoSession)
       ELSE pc' = [pc EXCEPT ![t] = "L89"] /\ resp' = resp
    /\ UNCHANGED <<sessions, audit_log, security_policies, now, last, req, loc>>

\* line 89: session = self.sessions[session_id]   (KeyError when gone)
V89(t) ==
    /\ pc[t] = "L89"
    /\ IF req[t].id \notin DOMAIN sessions
       THEN Finish(t, 500, "KeyError", NoSession) /\ loc' = loc
       ELSE /\ loc' = [loc EXCEPT ![t].session = sessions[req[t].id],
                                  ![t].held = TRUE]
            /\ pc' = [pc EXCEPT ![t] = "L92"]
            /\ resp' = resp
    /\ UNCHANGED <<sessions, audit_log, security_policies, now, last, req>>

\* lines 90-92: if datetime.now() > expires_at
V92(t) ==
    /\ pc[t] = "L92"
    /\ loc' = [loc EXCEPT ![t].t1 = now]
    /\ pc' = [pc EXCEPT ![t] =
                IF now > fromisoformat(loc[t].session.expires_at) THEN "L93" ELSE "L97"]
    /\ UNCHANGED <<sessions, audit_log, security_policies, now, last, req, resp>>

\* faulty variant: the expiry branch sweeps every expired session out of the store
V93_sweep(t) ==
    /\ pc[t] = "L93"
    /\ IF req[t].id \notin DOMAIN sessions
       THEN /\ pc' = [pc EXCEPT ![t] = "done"]
            /\ resp' = [resp EXCEPT ![t] =
                           [op |-> req[t].op, id |-> req[t].id, status |-> 500,
                            error |-> "KeyError", session |-> NoSession,
                            granted |-> FALSE]]
            /\ UNCHANGED <<sessions, loc>>
       ELSE /\ sessions' =
                 [j \in {k \in DOMAIN sessions :
                            ~(now > fromisoformat(sessions[k].expires_at))}
                    |-> sessions[j]]
            /\ loc' = [u \in ThreadIds |->
                         IF u # t /\ req[u].id = req[t].id /\ loc[u].held
                         THEN [loc[u] EXCEPT !.held = FALSE] ELSE loc[u]]
            /\ pc' = [pc EXCEPT ![t] = "done"]
            /\ resp' = [resp EXCEPT ![t] =
                           [op |-> req[t].op, id |-> req[t].id, status |-> 401,
                            error |-> "Session expired", session |-> NoSession,
                            granted |-> FALSE]]
    /\ UNCHANGED <<audit_log, security_policies, now, last, req>>

\* lines 93-94: del self.sessions[session_id] (KeyError when gone); raise
V93(t) ==
    /\ pc[t] = "L93"
    /\ IF req[t].id \notin DOMAIN sessions
       THEN /\ Finish(t, 500, "KeyError", NoSession)
            /\ UNCHANGED <<sessions, loc>>
       ELSE /\ sessions' = DictDel(sessions, req[t].id)
            /\ loc' = Orphan(loc, req[t].id, t)
            /\ Finish(t, 401, "Session expired", NoSession)
    /\ UNCHANGED <<audit_log, security_policies, now, last, req>>

\* lines 97-98: session["last_activity"] = ...; return session
V97(t) ==
    /\ pc[t] = "L97"
    /\ LET refreshed == [loc[t].session EXCEPT !.last_activity = isoformat(now)]
       IN  /\ loc' = [loc EXCEPT ![t].session = refreshed, ![t].t2 = now,
                                 ![t].stale = ~loc[t].held]
           /\ sessions' = IF loc[t].held
                          THEN [sessions EXCEPT ![req[t].id].last_activity =
                                                    isoformat(now)]
                          ELSE sessions
           /\ Finish(t, 200, "", refreshed)
    /\ UNCHANGED <<audit_log, security_policies, now, last, req>>

\* logout line 236: if session_id in security_service.sessions
O236(t) ==
    /\ pc[t] = "L236"
    /\ IF req[t].id \in DOMAIN sessions
       THEN pc' = [pc EXCEPT ![t] = "L237"] /\ resp' = resp
       ELSE Finish(t, 400, "Invalid session", NoSession)
    /\ UNCHANGED <<sessions, audit_log, security_policies, now, last, req, loc>>

\* line 237: user_id = sessions[session_id]["user_id"]   (KeyError when gone)
O237(t) ==
    /\ pc[t] = "L237"
    /\ IF req[t].id \notin DOMAIN sessions
       THEN Finish(t, 500, "KeyError", NoSession) /\ loc' = loc
       ELSE /\ loc' = [loc EXCEPT ![t].user_id = sessions[req[t].id].user_id]
            /\ pc' = [pc EXCEPT ![t] = "L238"]
            /\ resp' = resp
    /\ UNCHANGED <<sessions, audit_log, security_policies, now, last, req>>

\* line 238: del sessions[session_id]   (KeyError when gone)
O238(t) ==
    /\ pc[t] = "L238"
    /\ IF req[t].id \notin DOMAIN sessions
       THEN /\ Finish(t, 500, "KeyError", NoSession)
            /\ UNCHANGED <<sessions, loc>>
       ELSE /\ sessions' = DictDel(sessions, req[t].id)
            /\ loc' = Orphan(loc, req[t].id, t)
            /\ pc' = [pc EXCEPT ![t] = "L239"]
            /\ resp' = resp
    /\ UNCHANGED <<audit_log, security_policies, now, last, req>>

\* lines 239-240: log session_destroyed; return success
O239(t) ==
    /\ pc[t] = "L239"
    /\ audit_log' = log_security_event(audit_log, now, "session_destroyed",
                        [session_id |-> req[t].id, user_id |-> loc[t].user_id],
                        req[t].ctx)
    /\ Finish(t, 200, "", NoSession)
    /\ UNCHANGED <<sessions, security_policies, now, last, req, loc>>

\* login line 216: the password length test; lines 227-228 when it fails
L216(t) ==
    /\ pc[t] = "L216"
    /\ IF Len(req[t].password) >= security_policies.password_min_length
       THEN /\ pc' = [pc EXCEPT ![t] = "L67"]
            /\ UNCHANGED <<audit_log, resp>>
       ELSE /\ audit_log' = log_security_event(audit_log, now, "login_failed",
                               [username |-> req[t].user, reason |-> "weak_password"],
                               req[t].ctx)
            /\ Finish(t, 401, "Authentication failed", NoSession)
    /\ UNCHANGED <<sessions, security_policies, now, last, req, loc>>

\* create_session lines 67-77: the token and session_data, built from three
\* successive readings of the clock
C67(t) ==
    /\ pc[t] = "L67"
    /\ \E token \in Tokens : \E t2 \in Elapsed(now) : \E t3 \in Elapsed(t2) :
         /\ req' = [req EXCEPT ![t].id = token]
         /\ loc' = [loc EXCEPT ![t].t1 = now, ![t].t2 = t2, ![t].t3 = t3,
                               ![t].start = Entry(sessions, token),
                               ![t].session =
                                   SessionData(token, req[t].user,
                                               GetPermissions(req[t].perm),
                                               req[t].ctx, now, t2, t3)]
         /\ now' = t3
    /\ pc' = [pc EXCEPT ![t] = "L79"]
    /\ UNCHANGED <<sessions, audit_log, security_policies, last, resp>>

\* line 79: self.sessions[session_id] = session_data
C79(t) ==
    /\ pc[t] = "L79"
    /\ sessions' = DictSet(sessions, req[t].id, loc[t].session)
    /\ loc' = [Orphan(loc, req[t].id, t) EXCEPT ![t].held = TRUE]
    /\ pc' = [pc EXCEPT ![t] = "L80"]
    /\ UNCHANGED <<audit_log, security_policies, now, last, req, resp>>

\* lines 80-82 and login lines 220-225: log session_created; return the session
C80(t) ==
    /\ pc[t] = "L80"
    /\ audit_log' = log_security_event(audit_log, now, "session_created",
                        [user_id |-> req[t].user, session_id |-> req[t].id],
                        req[t].ctx)
    /\ Finish(t, 200, "", loc[t].session)
    /\ UNCHANGED <<sessions, security_policies, now, last, req, loc>>

ConcNext ==
    \/ Tick
    \/ \E t \in ThreadIds :
         \/ Start(t)
         \/ V86(t) \/ V89(t) \/ V92(t) \/ V93(t) \/ V97(t)
         \/ O236(t) \/ O237(t) \/ O238(t) \/ O239(t)
         \/ L216(t) \/ C67(t) \/ C79(t) \/ C80(t)

ConcSpec == ConcInit /\ [][ConcNext]_vars

-----------------------------------------------------------------------------
(* Properties of the session store (checked under Spec) *)

\* the deadline of a stored session has passed at clock t
Expired(session, t) == t > fromisoformat(session.expires_at)

\* ids for which the log holds an event of the given type
LoggedIds(log, event_type) ==
    {log[k].details.session_id :
        k \in {n \in 1..Len(log) : log[n].event_type = event_type}}

\* sessions a and b differ at most in last_activity
SameButActivity(a, b) == [a EXCEPT !.last_activity = b.last_activity] = b

\* C1: validate(id) of a session whose expiresAt has passed (now > expiresAt)
\* fails with "Session expired" and removes the entry, and a validate of the
\* same id that follows it fails with "Invalid session".
C1_ExpiredThenInvalid ==
    [][\A i \in ReqIds :
         /\ (/\ last'.op = "validate"
             /\ i \in DOMAIN sessions /\ Expired(sessions[i], now) /\ validate(i))
              => /\ last' = Response("validate", i, 401, "Session expired", NoSession)
                 /\ sessions' = DictDel(sessions, i)
         /\ (/\ last'.op = "validate"
             /\ last = Response("validate", i, 401, "Session expired", NoSession)
             /\ validate(i))
              => /\ last' = Response("validate", i, 401, "Invalid session", NoSession)
                 /\ sessions' = sessions
      ]_vars

\* C1 witness: the last request was a validate answered "Invalid session" for an
\* id that was issued, never logged out, and is gone: lazy expiry removed it.
C1_Witness ==
    /\ last.op = "validate" /\ last.error = "Invalid session"
    /\ last.id \in LoggedIds(audit_log, "session_created")
    /\ last.id \notin LoggedIds(audit_log, "session_destroyed")
    /\ last.id \notin DOMAIN sessions

\* C2: a successful validate(id), by the route or inside a permission check,
\* changes only last_activity of that session: expires_at, created_at,
\* user_id, permissions and the origin context stay, every other session
\* stays, and the audit log stays.
C2_ValidateFrame ==
    [][\A i \in ReqIds :
         \/ last'.op = "validate" /\ last'.status = 200 /\ validate(i)
         \/ /\ last'.op = "check_permissions" /\ i \in DOMAIN sessions'
            /\ \E required \in Permissions : has_permission(i, required)
         => /\ i \in DOMAIN sessions
            /\ DOMAIN sessions' = DOMAIN sessions
            /\ \A j \in DOMAIN sessions \ {i} : sessions'[j] = sessions[j]
            /\ SameButActivity(sessions'[i], sessions[i])
            /\ sessions'[i].expires_at = sessions[i].expires_at
            /\ audit_log' = audit_log
            /\ security_policies' = security_policies
      ]_vars

\* C2 witness: a validate has succeeded on a session and moved its last_activity
\* past its creation, beside another stored session.
C2_Witness ==
    /\ last.op = "validate" /\ last.status = 200
    /\ last.id \in DOMAIN sessions
    /\ fromisoformat(sessions[last.id].last_activity)
          > fromisoformat(sessions[last.id].created_at)
    /\ DOMAIN sessions # {last.id}

\* C3: validate(id) for an id that is not in the store fails with
\* "Invalid session" and leaves the store unchanged.
C3_UnknownIdInvalid ==
    [][\A i \in ReqIds :
         (last'.op = "validate" /\ i \notin DOMAIN sessions /\ validate(i))
           => /\ last' = Response("validate", i, 401, "Invalid session", NoSession)
              /\ sessions' = sessions
      ]_vars

\* C3 witness: a validate of an absent id has been answered while the store
\* holds another session.
C3_Witness ==
    /\ last.op = "validate" /\ last.error = "Invalid session"
    /\ last.id \notin DOMAIN sessions
    /\ DOMAIN sessions # {}

\* the permission lists a login body may carry
ListInputs == {perm \in PermInputs : perm.kind = "list"}

\* validate run right after a login that created session id, at any clock
\* reading the handler may see
ValidateAfter(id) ==
    {validate_session(sessions', id, now', t2) : t2 \in Elapsed(now')}

\* C4 as claimed: validate immediately after create returns the principal and
\* the permission list passed to create, for every list, the empty one included.
C4_Original ==
    [][\A username \in Users, password \in Passwords, perm \in ListInputs,
          ctx \in Contexts :
         (/\ last'.op = "login" /\ last'.status = 200
          /\ login(username, password, perm, ctx))
           => \A v \in ValidateAfter(last'.id) :
                /\ v.error = ""
                /\ v.session.user_id = username
                /\ v.session.permissions = perm.items
      ]_vars

\* C4 as amended: validate immediately after create succeeds and returns the
\* principal passed to create, and the permission list passed to create when
\* that list is non-empty; for an empty list it returns <<"read">>.
C4_CreateThenValidate ==
    [][\A username \in Users, password \in Passwords, perm \in ListInputs,
          ctx \in Contexts :
         (/\ last'.op = "login" /\ last'.status = 200
          /\ login(username, password, perm, ctx))
           => \A v \in ValidateAfter(last'.id) :
                /\ v.error = ""
                /\ v.session.user_id = username
                /\ v.session.permissions =
                      IF perm.items # <<>> THEN perm.items ELSE <<"read">>
      ]_vars

\* C4 witness: a login with a non-empty permission list has created a session
\* and the validate that followed returned it.
C4_Witness ==
    /\ last.op = "validate" /\ last.status = 200
    /\ last.session.permissions = <<"admin">>
    /\ last.session.user_id \in Users
    /\ last.session.last_activity = last.session.created_at

C7_Original ==
    [][\A username \in Users, password \in Passwords, perm \in PermInputs,
          ctx \in Contexts :
         (/\ last'.op = "login" /\ last'.status = 200
          /\ login(username, password, perm, ctx))
           => last'.id \notin DOMAIN sessions
      ]_vars

\* C8 as claimed: an id that was issued and has been removed (by logout or by
\* lazy expiry) never enters the store again.
C8_Original ==
    [][\A i \in ReqIds :
         (i \in LoggedIds(audit_log, "session_created") /\ i \notin DOMAIN sessions)
           => i \notin DOMAIN sessions'
      ]_vars

-----------------------------------------------------------------------------
(* Properties of authentication and of the failure paths (checked under Spec) *)

\* C11: a login whose secret is shorter than the policy minimum length is
\* answered 401 "Authentication failed", appends one login_failed event to the
\* audit log with that answer, and leaves the session store unchanged.
C11_ShortSecretFails ==
    [][\A username \in Users, password \in Passwords, perm \in PermInputs,
          ctx \in Contexts :
         (/\ last'.op = "login"
          /\ Len(password) < security_policies.password_min_length
          /\ login(username, password, perm, ctx))
           => /\ last' = Response("login", "", 401, "Authentication failed", NoSession)
              /\ sessions' = sessions
              /\ audit_log' =
                    Append(audit_log,
                           SecurityEvent(now, "login_failed",
                               [username |-> username, reason |-> "weak_password"],
                               ctx))
      ]_vars

\* C11 witness: a login has been rejected and its login_failed event is the
\* newest event of the log, the sessions being those of the earlier logins.
C11_Witness ==
    /\ last.op = "login" /\ last.status = 401
    /\ Len(audit_log) = InitialLogins + 1
    /\ audit_log[Len(audit_log)].event_type = "login_failed"
    /\ audit_log[Len(audit_log)].details.username \in Users
    /\ sessions = Earlier(InitialLogins).store

\* the credential records a principal may have registered: a secret that
\* satisfies the length policy, per principal
CredentialRecords ==
    [Users -> {p \in Passwords : Len(p) >= password_min_length}]

\* C12 as claimed: a login yields a session only when the supplied secret is
\* the one of the principal's credential record - whatever that record is, a
\* secret that differs from it yields no session.
C12_Original ==
    [][\A record \in CredentialRecords :
       \A username \in Users, password \in Passwords, perm \in PermInputs,
          ctx \in Contexts :
         (/\ last'.op = "login" /\ last'.status = 200
          /\ login(username, password, perm, ctx))
           => password = record[username]
      ]_vars

\* C13 as claimed: when a validate fails with "Session expired", an audit
\* event recording the attempt on that id has been appended to the log by the
\* time the failure is reported.
C13_Original ==
    [][\A i \in ReqIds :
         (/\ last'.op = "validate" /\ last'.error = "Session expired"
          /\ validate(i))
           => /\ Len(audit_log') = Len(audit_log) + 1
              /\ audit_log'[Len(audit_log')].details.session_id = i
      ]_vars

-----------------------------------------------------------------------------
(* Properties of the sessions created and of the expiry test (checked under *)
(* Spec)                                                                     *)

\* C22 as claimed: every stored session has expires_at = created_at +
\* session_timeout exactly, whatever the clock does while it is created.
C22_Original ==
    \A i \in DOMAIN sessions :
        fromisoformat(sessions[i].expires_at) =
            fromisoformat(sessions[i].created_at) + security_policies.session_timeout

\* the permissions members that hold no permission: JSON null, the empty list
EmptyPerms ==
    {perm \in PermInputs : perm.kind = "null" \/ (perm.kind = "list" /\ perm.items = <<>>)}

\* every stored session has at least one permission
C23_StoredNonEmpty ==
    \A i \in DOMAIN sessions : Len(sessions[i].permissions) > 0

\* a login that requests no permission (null or the empty list) stores and
\* returns a session whose permissions are <<"read">>
C23_EmptyRequestGetsRead ==
    \A username \in Users, password \in Passwords, perm \in EmptyPerms,
       ctx \in Contexts :
        (/\ last'.op = "login" /\ last'.status = 200
         /\ login(username, password, perm, ctx))
          => /\ sessions'[last'.id].permissions = <<"read">>
             /\ last'.session.permissions = <<"read">>

\* C23: every session in the store has a non-empty permissions list, in every
\* reachable state and for every permissions member a login may carry (a list,
\* the empty list, null, or none).
C23_PermissionsNonEmpty ==
    []C23_StoredNonEmpty /\ [][C23_EmptyRequestGetsRead]_vars

\* C23 witness: a login has stored a session whose permissions are the
\* implicit <<"read">>, beside the session of an earlier login.
C23_Witness ==
    /\ last.op = "login" /\ last.status = 200
    /\ last.id \in DOMAIN sessions
    /\ sessions[last.id].permissions = <<"read">>
    /\ \E j \in DOMAIN sessions : j # last.id

\* C29: the expiry test is strict: a validate of a stored id succeeds and
\* refreshes last_activity whenever the clock at the test is <= expires_at,
\* also exactly at expires_at, and it fails with "Session expired" only when
\* the clock is > expires_at.
C29_StrictExpiry ==
    [][\A i \in ReqIds :
         (last'.op = "validate" /\ i \in DOMAIN sessions /\ validate(i))
           => /\ (now <= fromisoformat(sessions[i].expires_at))
                   => /\ last'.status = 200 /\ last'.error = ""
                      /\ i \in DOMAIN sessions'
                      /\ sessions'[i].last_activity = isoformat(now')
                      /\ last'.session = sessions'[i]
              /\ (last'.error = "Session expired")
                   => now > fromisoformat(sessions[i].expires_at)
              /\ last'.error \in {"", "Session expired"}
      ]_vars

\* C29 witness: a validate made exactly at the deadline of a session has
\* succeeded: its last_activity is its expires_at.
C29_Witness ==
    /\ last.op = "validate" /\ last.status = 200
    /\ last.id \in DOMAIN sessions
    /\ sessions[last.id].last_activity = sessions[last.id].expires_at

-----------------------------------------------------------------------------
(* Properties of the threat scan and of the audit query (checked under      *)
(* ScanSpec)                                                                 *)

\* the signal tags, and those whose test a body fires
Signals == {"potential_xss", "potential_sql_injection", "oversized_request"}
Fired(request_data) ==
    {tag \in Signals :
        \/ tag = "potential_xss" /\ IsXss(request_data)
        \/ tag = "potential_sql_injection" /\ IsSqlInjection(request_data)
        \/ tag = "oversized_request" /\ IsOversized(request_data)}
\* Fired on the bodies of the model, computed once
FiredBy == [request_data \in Payloads |-> Fired(request_data)]

\* the sum of the claimed weights of a set of signals
WeightOf(tags) ==
    (IF "potential_xss" \in tags THEN 30 ELSE 0)
    + (IF "potential_sql_injection" \in tags THEN 50 ELSE 0)
    + (IF "oversized_request" \in tags THEN 20 ELSE 0)

\* the elements of a list
Range(l) == {l[k] : k \in 1..Len(l)}

\* C14 as claimed: a body that fires the script signal (and no other) gets a
\* verdict that lists that signal, has risk_score >= 30 and has action
\* "monitor".
C14_Original ==
    [][\A request_data \in Payloads, ctx \in Contexts :
         (/\ last'.op = "threat_scan"
          /\ FiredBy[request_data] = {"potential_xss"}
          /\ threat_scan(request_data, ctx))
           => /\ "potential_xss" \in Range(last'.body.threats_detected)
              /\ last'.body.risk_score >= 30
              /\ last'.body.action = "monitor"
      ]_vars

\* C15: for every combination of the three signals, risk_score is the sum of
\* the weights (30, 50, 20) of exactly the signals that fired,
\* threats_detected lists exactly those signals, each once, and action is
\* "block" if risk_score > 70, "monitor" if 30 < risk_score <= 70, "allow"
\* otherwise.
C15_ScoreAndAction ==
    [][\A request_data \in Payloads, ctx \in Contexts :
         (last'.op = "threat_scan" /\ threat_scan(request_data, ctx))
           => LET verdict == last'.body
              IN  /\ verdict.risk_score = WeightOf(FiredBy[request_data])
                  /\ Range(verdict.threats_detected) = FiredBy[request_data]
                  /\ Len(verdict.threats_detected) =
                        Cardinality(FiredBy[request_data])
                  /\ verdict.action =
                        IF verdict.risk_score > 70 THEN "block"
                        ELSE IF verdict.risk_score > 30 THEN "monitor"
                        ELSE "allow"
      ]_vars

\* C15 witness: a scan of a body that fires all three signals has been answered
\* with score 100 and "block", and every combination of signals is fired by
\* some body of the model.
C15_Witness ==
    /\ last.op = "threat_scan"
    /\ Range(last.body.threats_detected) = Signals
    /\ last.body.risk_score = 100 /\ last.body.action = "block"
    /\ \A tags \in SUBSET Signals : \E request_data \in Payloads :
          FiredBy[request_data] = tags

\* C16: a body holding both "union" and "select" gets risk_score >= 50 and an
\* action of "monitor" or "block", never "allow"; it is "block" exactly when the
\* other signals that fired add at least 21 weight.
C16_UnionSelect ==
    [][\A request_data \in Payloads, ctx \in Contexts :
         (/\ last'.op = "threat_scan"
          /\ "potential_sql_injection" \in FiredBy[request_data]
          /\ threat_scan(request_data, ctx))
           => LET verdict == last'.body
                  others == WeightOf(FiredBy[request_data]
                                        \ {"potential_sql_injection"})
              IN  /\ verdict.risk_score >= 50
                  /\ verdict.action \in {"monitor", "block"}
                  /\ (verdict.action = "block") <=> (others >= 21)
      ]_vars

\* C16 witness: a body with both keywords and an oversized text, whose other
\* signals add 20, has been scanned and is monitored, not blocked.
C16_Witness ==
    /\ last.op = "threat_scan"
    /\ Range(last.body.threats_detected) =
          {"potential_sql_injection", "oversized_request"}
    /\ last.body.risk_score = 70 /\ last.body.action = "monitor"

\* the orders in which the three tests may be run
Orders ==
    {order \in [1..3 -> Signals] : Range(order) = Signals}

\* the tests run in a given order, each adding its tag and its weight when it
\* fires: the tags and the score after the first n tests
RECURSIVE ScoreInOrder(_, _, _)
ScoreInOrder(order, n, request_data) ==
    IF n = 0 THEN [tags |-> {}, risk_score |-> 0]
    ELSE LET before == ScoreInOrder(order, n - 1, request_data)
         IN  IF order[n] \in FiredBy[request_data]
             THEN [tags |-> before.tags \cup {order[n]},
                   risk_score |-> before.risk_score + WeightOf({order[n]})]
             ELSE before

\* the outcomes of the three tests run on a body in every order, and the
\* bodies whose signals are among those of a body, computed once
InAnyOrder ==
    [request_data \in Payloads |->
        {ScoreInOrder(order, 3, request_data) : order \in Orders}]
FiresNoMore ==
    [request_data \in Payloads |->
        {smaller \in Payloads : FiredBy[smaller] \subseteq FiredBy[request_data]}]

\* C17: in whatever state of the service a body is scanned, its verdict is
\* the one the three tests give when run on that body in any order (the same
\* signals, score and action), so it depends on the body alone; and a body
\* that fires a superset of another body's signals never has a lower
\* risk_score.
C17_DeterministicMonotonic ==
    [][\A request_data \in Payloads, ctx \in Contexts :
         (last'.op = "threat_scan" /\ threat_scan(request_data, ctx))
           => LET verdict == last'.body
              IN  /\ InAnyOrder[request_data] =
                        {[tags |-> Range(verdict.threats_detected),
                          risk_score |-> verdict.risk_score]}
                  /\ ActionOf(verdict.risk_score) = verdict.action
                  /\ \A smaller \in FiresNoMore[request_data] :
                       Analysis[smaller].risk_score <= verdict.risk_score
      ]_vars

\* C17 witness: a body that fires two signals has been scanned in a state
\* other than the initial one (the clock has advanced) and its verdict, with
\* both signals, is the newest event of the log.
C17_Witness ==
    /\ last.op = "threat_scan"
    /\ Len(last.body.threats_detected) = 2
    /\ last.body.risk_score = 80
    /\ audit_log[Len(audit_log)].details = last.body
    /\ fromisoformat(audit_log[Len(audit_log)].timestamp) > session_timeout

\* C18: every threat scan appends exactly one audit event, of type threat_scan
\* and carrying the verdict it returns (signals, score, action), whatever the
\* action, and changes no session.
C18_ScanAudited ==
    [][\A request_data \in Payloads, ctx \in Contexts :
         (last'.op = "threat_scan" /\ threat_scan(request_data, ctx))
           => /\ Len(audit_log') = Len(audit_log) + 1
              /\ SubSeq(audit_log', 1, Len(audit_log)) = audit_log
              /\ audit_log'[Len(audit_log')].event_type = "threat_scan"
              /\ audit_log'[Len(audit_log')].details = last'.body
              /\ Range(last'.body.threats_detected) = FiredBy[request_data]
              /\ last'.body.risk_score = WeightOf(FiredBy[request_data])
              /\ sessions' = sessions
      ]_vars

\* C18 witness: a scan answered "block" is the newest event of the log, with
\* its verdict, and the sessions are those of the earlier logins.
C18_Witness ==
    /\ last.op = "threat_scan" /\ last.body.action = "block"
    /\ audit_log[Len(audit_log)].event_type = "threat_scan"
    /\ audit_log[Len(audit_log)].details = last.body
    /\ sessions = Earlier(InitialLogins).store
    /\ DOMAIN sessions # {}

\* the events of a log that match a type filter ("" matches all), in order
Matching(log, event_type) ==
    SelectSeq(log, LAMBDA e : event_type = "" \/ e.event_type = event_type)

\* the most recent n events of a list
MostRecent(events, n) ==
    SubSeq(events, Len(events) - (IF n < Len(events) THEN n ELSE Len(events)) + 1,
           Len(events))

\* C20 as claimed: for every limit >= 0 and every type filter, the audit query
\* returns exactly the most recent min(limit, k) of the k matching events, in
\* insertion order.
C20_Original ==
    [][\A limit \in LimitArgs, event_type \in TypeArgs :
         (/\ last'.op = "audit_events" /\ limit >= 0
          /\ get_audit_events(limit, event_type))
           => last'.body.events = MostRecent(Matching(audit_log, event_type), limit)
      ]_vars

-----------------------------------------------------------------------------
(* Properties of the audit log (checked under ServiceSpec) *)

\* a is a prefix of b
IsPrefix(a, b) == Len(a) <= Len(b) /\ SubSeq(b, 1, Len(a)) = a

\* C19: the audit log is append-only: every step of every route leaves the log
\* it found as a prefix of the log it leaves, so the log of every earlier state
\* is a prefix of the log of every later one - no event is removed, reordered
\* or modified, and new events are added at the end only.
C19_AppendOnly == [][IsPrefix(audit_log, audit_log')]_vars

\* C19 witness: after a login, a scan has been appended behind its event and an
\* audit query has read the log of both.
C19_Witness ==
    /\ last.op = "audit_events"
    /\ last.body.total_events = Len(audit_log)
    /\ Len(audit_log) = InitialLogins + MaxLog
    /\ audit_log[1].event_type = "session_created"
    /\ audit_log[Len(audit_log)].event_type = "threat_scan"

\* the names of the members of the records the service stores
EventDetailNames(log) == UNION {DOMAIN log[k].details : k \in 1..Len(log)}
SessionNames(store) == UNION {DOMAIN store[i] : i \in DOMAIN store}

\* C26: the secret submitted to a login is not logged or stored: the audit
\* log, the session store and the response a login leaves are the same
\* whichever secret of the same outcome of the length test was submitted, and
\* no event and no session has a password member.
C26_SecretNotStored ==
    [][last'.op = "login" =>
       \A username \in Users, password \in ServicePasswords, perm \in ServicePerms,
          ctx \in Contexts :
         login(username, password, perm, ctx)
           => /\ \A other \in ServicePasswords :
                   ((Len(other) >= password_min_length)
                       = (Len(password) >= password_min_length))
                     => login(username, other, perm, ctx)
              /\ "password" \notin EventDetailNames(audit_log')
              /\ "password" \notin SessionNames(sessions')
      ]_vars

\* C26 witness: a login has been rejected; its login_failed event, which
\* holds the user name and the reason only, is the newest of the log, behind
\* the session_created event of an accepted login whose session is stored.
C26_Witness ==
    /\ last.op = "login" /\ last.status = 401
    /\ audit_log[Len(audit_log)].event_type = "login_failed"
    /\ DOMAIN audit_log[Len(audit_log)].details = {"username", "reason"}
    /\ audit_log[1].event_type = "session_created"
    /\ audit_log[1].details.session_id \in DOMAIN sessions

\* C27: no request operation changes a value of the security policy.
C27_PolicyReadOnly == [][security_policies' = security_policies]_vars

\* C27 witness: after requests that filled the log, the policies route has
\* answered with the policy the service was constructed with.
C27_Witness ==
    /\ last.op = "policies"
    /\ last.body = security_policies
    /\ security_policies.session_timeout = session_timeout
    /\ security_policies.password_min_length = password_min_length
    /\ security_policies.max_login_attempts = max_login_attempts
    /\ Len(audit_log) = InitialLogins + MaxLog

\* the requirements the claim gives a data category and an operation
Required(data_type, operation) ==
    (IF data_type = "personal_data"
     THEN {"user_consent_required", "data_retention_policy", "right_to_deletion"}
     ELSE {})
    \cup (IF operation = "data_export" THEN {"data_portability"} ELSE {})

\* C28: the compliance check is a lookup of its two inputs: the requirements
\* are the consent, retention and deletion-right requirements exactly when
\* data_type is personal_data, the portability requirement exactly when
\* operation is data_export, and nothing else, each once, whatever calls came
\* before; the service state is left as it is.
C28_ComplianceLookup ==
    [][last'.op = "compliance" =>
       \A data_type \in DataTypeArgs, operation \in OperationArgs :
         (/\ data_type.given /\ operation.given
          /\ compliance_check_route(data_type, operation))
           => /\ last'.status = 200
              /\ Range(last'.body.requirements) =
                    Required(data_type.value, operation.value)
              /\ Len(last'.body.requirements) =
                    Cardinality(Required(data_type.value, operation.value))
              /\ UNCHANGED <<sessions, audit_log, security_policies>>
      ]_vars

\* C28 witness: a check of (personal_data, data_export) has answered with its
\* four requirements, in a service that holds a session and a log.
C28_Witness ==
    /\ last.op = "compliance" /\ last.status = 200
    /\ Len(last.body.requirements) = 4
    /\ Range(last.body.requirements) = Required("personal_data", "data_export")
    /\ DOMAIN sessions # {} /\ Len(audit_log) > 0

\* the step is a logout of id i, or a validate or permission check of id i
\* that finds the session past its deadline
RemovesById(i) ==
    \/ \E ctx \in Contexts : logout(i, ctx)
    \/ /\ Expired(sessions[i], now)
       /\ \/ validate(i)
          \/ \E required \in Permissions : has_permission(i, required)

\* C30 as claimed: a stored session leaves the store only by a logout of its
\* id or by a validate / permission check of its id that finds now >
\* expires_at; every other step keeps it (the same session, at most its
\* last_activity refreshed), and the session listing and the health route
\* count every stored session, expired or not.
C30_Original ==
    [][/\ \A i \in DOMAIN sessions :
            ~RemovesById(i)
              => /\ i \in DOMAIN sessions'
                 /\ SameButActivity(sessions[i], sessions'[i])
       /\ last'.op = "sessions"
            => last'.body.total_sessions = Cardinality(DOMAIN sessions)
       /\ last'.op = "health"
            => last'.body.active_sessions = Cardinality(DOMAIN sessions)
      ]_vars

\* the positions of the log's events of one type about session id i
EventsAbout(log, event_type, i) ==
    {k \in DOMAIN log :
        log[k].event_type = event_type /\ log[k].details.session_id = i}

-----------------------------------------------------------------------------
(* QuerySpec: get_audit_events in the threaded server.  A thread executes   *)
(* the handler one statement at a time; between two statements the threat   *)
(* scan of another request may append to the log (list.append is atomic).   *)
(* A thread's request is the query's arguments; its locals are events (an   *)
(* alias of the live list when there is no type filter, else the list the   *)
(* comprehension built), the two lengths already evaluated for the response *)
(* and the log as it was when the request arrived (start).                  *)

\* the limit arguments of the concurrent queries
QueryLimits == {default_limit, 1}

NoQuery == [op |-> "", limit |-> default_limit, event_type |-> ""]
NoEvents == [aliased |-> FALSE, events |-> << >>, total_events |-> 0,
             filtered_events |-> 0, start |-> << >>]

QueryInit ==
    /\ security_policies =
          [password_min_length |-> password_min_length,
           session_timeout |-> session_timeout,
           max_login_attempts |-> max_login_attempts,
           require_2fa |-> FALSE,
           encryption_algorithm |-> "AES-256"]
    /\ sessions = Earlier(InitialLogins).store
    /\ audit_log = Earlier(InitialLogins).log
    /\ now = 0
    /\ last = Response("", "", 0, "", NoSession)
    /\ pc = Idle
    /\ req = [t \in ThreadIds |-> NoQuery]
    /\ loc = [t \in ThreadIds |-> NoEvents]
    /\ resp = [t \in ThreadIds |-> Reply("", 0, << >>)]

\* the list a thread's name events denotes
EventsOf(t) == IF loc[t].aliased THEN audit_log ELSE loc[t].events

\* lines 297-298: the request arrives and its arguments are read
Q297(t, limit, event_type) ==
    /\ pc[t] = "idle"
    /\ req' = [req EXCEPT ![t] =
                  [op |-> "audit_events", limit |-> limit, event_type |-> event_type]]
    /\ loc' = [loc EXCEPT ![t].start = audit_log]
    /\ pc' = [pc EXCEPT ![t] = "q300"]
    /\ UNCHANGED <<sessions, audit_log, security_policies, now, last, resp>>

\* lines 300-302: events names the log itself, or, with a type filter, the
\* list the comprehension builds (the iterator of a list that only grows
\* yields the list as it is when the iteration ends)
Q300(t) ==
    /\ pc[t] = "q300"
    /\ loc' = [loc EXCEPT ![t].aliased = (req[t].event_type = ""),
                          ![t].events =
                              IF req[t].event_type # ""
                              THEN FilterByType(audit_log, req[t].event_type)
                              ELSE << >>]
    /\ pc' = [pc EXCEPT ![t] = "q306"]
    /\ UNCHANGED <<sessions, audit_log, security_policies, now, last, req, resp>>

\* line 306: len(security_service.audit_log)
Q306(t) ==
    /\ pc[t] = "q306"
    /\ loc' = [loc EXCEPT ![t].total_events = Len(audit_log)]
    /\ pc' = [pc EXCEPT ![t] = "q307"]
    /\ UNCHANGED <<sessions, audit_log, security_policies, now, last, req, resp>>

\* line 307: len(events)
Q307(t) ==
    /\ pc[t] = "q307"
    /\ loc' = [loc EXCEPT ![t].filtered_events = Len(EventsOf(t))]
    /\ pc' = [pc EXCEPT ![t] = "q308"]
    /\ UNCHANGED <<sessions, audit_log, security_policies, now, last, req, resp>>

\* lines 304-309: events[-limit:] and the response
Q308(t) ==
    /\ pc[t] = "q308"
    /\ resp' = [resp EXCEPT ![t] =
                   Reply("audit_events", 200,
                         [total_events |-> loc[t].total_events,
                          filtered_events |-> loc[t].filtered_events,
                          events |-> SliceFrom(EventsOf(t), 0 - req[t].limit)])]
    /\ pc' = [pc EXCEPT ![t] = "done"]
    /\ UNCHANGED <<sessions, audit_log, security_policies, now, last, req, loc>>

QueryNext ==
    \/ \E t \in ThreadIds, limit \in QueryLimits, event_type \in TypeArgs :
         Q297(t, limit, event_type)
    \/ \E t \in ThreadIds : Q300(t) \/ Q306(t) \/ Q307(t) \/ Q308(t)
    \/ \E request_data \in ServicePayloads, ctx \in Contexts :
         threat_scan(request_data, ctx)

QuerySpec == QueryInit /\ [][QueryNext]_vars

-----------------------------------------------------------------------------
(* BrowserSpec: the browser service.  A URL is None or a string             *)

BrowserIds == {"default", "s1"}
None == [is_none |-> TRUE, value |-> ""]
Url(value) == [is_none |-> FALSE, value |-> value]
\* the url member of a navigate body: a page, the empty string, or missing
UrlArgs ==
    { [given |-> TRUE, value |-> "https://a.example"],
      [given |-> TRUE, value |-> ""],
      [given |-> FALSE, value |-> ""] }
\* the options member of a create body: missing, or an object
OptionArgs == { << >>, [headless |-> TRUE] }

\* f"Session {session_id} not found"
NotFound(session_id) == <<"Session ", session_id, " not found">>
NoPage == <<"No page loaded in session">>

\* faulty variant: creating an id that exists keeps the page it is on
BrowserService_create_session_keeps_page(table, session_id, options, t) ==
    DictSet(table, session_id,
            [created |-> isoformat(t),
             options |-> options,
             current_url |-> IF session_id \in DOMAIN table
                             THEN table[session_id].current_url ELSE None,
             status |-> "active"])

\* BrowserService.create_session: the table after the call
BrowserService_create_session(table, session_id, options, t) ==
    DictSet(table, session_id,
            [created |-> isoformat(t),
             options |-> options,
             current_url |-> None,
             status |-> "active"])

\* BrowserService.navigate: the table after the call and the error raised
\* (<< >> when none)
BrowserService_navigate(table, session_id, url) ==
    IF session_id \notin DOMAIN table
    THEN [table |-> table, error |-> NotFound(session_id)]
    ELSE [table |-> DictSet(table, session_id,
                       DictSet(DictSet(table[session_id], "current_url", Url(url)),
                               "last_action", "navigate")),
          error |-> << >>]

\* BrowserService.extract_content: the url of the result and the error raised
BrowserService_extract_content(table, session_id) ==
    IF session_id \notin DOMAIN table
    THEN [url |-> None, error |-> NotFound(session_id)]
    ELSE LET current_url == table[session_id].current_url
         IN  IF current_url.is_none \/ current_url.value = ""
             THEN [url |-> None, error |-> NoPage]
             ELSE [url |-> current_url, error |-> << >>]

\* BrowserService.take_screenshot: the error raised
BrowserService_take_screenshot(table, session_id) ==
    IF session_id \notin DOMAIN table THEN NotFound(session_id) ELSE << >>

\* a call, its answer (the status, the error text, the url of the data) and
\* the calls answered before it together with it
Call(op, session_id, status, error, url) ==
    LET c == [op |-> op, id |-> session_id, status |-> status, error |-> error,
              url |-> url]
    IN  [op |-> op, id |-> session_id, status |-> status, error |-> error,
         url |-> url, calls |-> Append(last.calls, c)]

BrowserInit ==
    /\ security_policies =
          [password_min_length |-> password_min_length,
           session_timeout |-> session_timeout,
           max_login_attempts |-> max_login_attempts,
           require_2fa |-> FALSE,
           encryption_algorithm |-> "AES-256"]
    /\ sessions = << >>
    /\ audit_log = << >>
    /\ now = 0
    /\ last = [op |-> "", id |-> "", status |-> 0, error |-> << >>, url |-> None,
               calls |-> << >>]
    /\ pc = Idle
    /\ req = [t \in ThreadIds |-> NoReq]
    /\ loc = [t \in ThreadIds |-> NoLoc]
    /\ resp = [t \in ThreadIds |-> Response("", "", 0, "", NoSession)]

\* POST /browser/session
browser_session(session_id, options) ==
    /\ Len(last.calls) < MaxCalls
    /\ sessions' = BrowserService_create_session(sessions, session_id, options, now)
    /\ last' = Call("create_session", session_id, 200, << >>, None)
    /\ UNCHANGED <<audit_log, security_policies, now, threadVars>>

\* POST /browser/navigate
navigate(session_id, url) ==
    /\ Len(last.calls) < MaxCalls
    /\ IF ~url.given
       THEN /\ last' = Call("navigate", session_id, 400,
                            <<"Missing 'url' in request">>, None)
            /\ sessions' = sessions
       ELSE LET r == BrowserService_navigate(sessions, session_id, url.value)
            IN  /\ sessions' = r.table
                /\ last' = IF r.error = << >>
                           THEN Call("navigate", session_id, 200, << >>, Url(url.value))
                           ELSE Call("navigate", session_id, 500, r.error, None)
    /\ UNCHANGED <<audit_log, security_policies, now, threadVars>>

\* POST /browser/extract
extract_content(session_id) ==
    /\ Len(last.calls) < MaxCalls
    /\ LET r == BrowserService_extract_content(sessions, session_id)
       IN  last' = IF r.error = << >>
                   THEN Call("extract_content", session_id, 200, << >>, r.url)
                   ELSE Call("extract_content", session_id, 500, r.error, None)
    /\ UNCHANGED <<sessions, audit_log, security_policies, now, threadVars>>

\* POST /browser/screenshot
take_screenshot(session_id) ==
    /\ Len(last.calls) < MaxCalls
    /\ LET error == BrowserService_take_screenshot(sessions, session_id)
       IN  last' = IF error = << >>
                   THEN Call("take_screenshot", session_id, 200, << >>, None)
                   ELSE Call("take_screenshot", session_id, 500, error, None)
    /\ UNCHANGED <<sessions, audit_log, security_policies, now, threadVars>>

BrowserNext ==
    \/ \E session_id \in BrowserIds, options \in OptionArgs :
         browser_session(session_id, options)
    \/ \E session_id \in BrowserIds, url \in UrlArgs : navigate(session_id, url)
    \/ \E session_id \in BrowserIds : extract_content(session_id)
    \/ \E session_id \in BrowserIds : take_screenshot(session_id)

BrowserSpec == BrowserInit /\ [][BrowserNext]_vars

-----------------------------------------------------------------------------
(* StatusSpec and WorkflowSpec: the integration gateway.  The gateway calls *)
(* the other services over HTTP; what a call meets is an input.             *)

\* IntegrationService.services
services == sessions

\* the keys of IntegrationService.services, in the order of the dict
ServiceKeys == <<"ai_orchestration", "cli_automation", "browser_control", "security">>
KeySet == {ServiceKeys[k] : k \in DOMAIN ServiceKeys}

\* what requests.get meets at a service: status 200 with a JSON body, status
\* 200 with a body that is not JSON, another status, or no connection
Answers == {"json_200", "text_200", "json_503", "refused"}

\* the status code of an answer that arrived
status_code(answer) == IF answer = "json_503" THEN 503 ELSE 200

\* faulty variant: a 200 whose body does not parse leaves the stored status
\* at "online" while the result says "offline"
check_service_health_keeps_online(table, service_key, answer) ==
    IF answer = "refused"
    THEN [services |-> [table EXCEPT ![service_key].status = "offline"],
          result |-> [service |-> service_key, status |-> "offline",
                      error |-> "ConnectionError"]]
    ELSE IF status_code(answer) = 200
    THEN IF answer = "json_200"
         THEN [services |-> [table EXCEPT ![service_key].status = "online"],
               result |-> [service |-> service_key, status |-> "online",
                           response |-> "json"]]
         ELSE [services |-> [table EXCEPT ![service_key].status = "online"],
               result |-> [service |-> service_key, status |-> "offline",
                           error |-> "JSONDecodeError"]]
    ELSE [services |-> [table EXCEPT ![service_key].status = "unhealthy"],
          result |-> [service |-> service_key, status |-> "unhealthy",
                      error |-> <<"HTTP ", status_code(answer)>>]]

\* IntegrationService.check_service_health: the table after the call and the
\* result returned.  On status 200 the store is set to "online" before
\* response.json() runs; when that raises, the handler sets "offline".
check_service_health(table, service_key, answer) ==
    IF answer = "refused"
    THEN [services |-> [table EXCEPT ![service_key].status = "offline"],
          result |-> [service |-> service_key, status |-> "offline",
                      error |-> "ConnectionError"]]
    ELSE IF status_code(answer) = 200
    THEN IF answer = "json_200"
         THEN [services |-> [table EXCEPT ![service_key].status = "online"],
               result |-> [service |-> service_key, status |-> "online",
                           response |-> "json"]]
         ELSE [services |-> [[table EXCEPT ![service_key].status = "online"]
                                EXCEPT ![service_key].status = "offline"],
               result |-> [service |-> service_key, status |-> "offline",
                           error |-> "JSONDecodeError"]]
    ELSE [services |-> [table EXCEPT ![service_key].status = "unhealthy"],
          result |-> [service |-> service_key, status |-> "unhealthy",
                      error |-> <<"HTTP ", status_code(answer)>>]]

\* the loop of check_all_services from the k-th key on: the table, the
\* results and online_count when it ends
RECURSIVE CheckFrom(_, _, _, _, _)
CheckFrom(table, answers, k, results, online_count) ==
    IF k > Len(ServiceKeys)
    THEN [services |-> table, results |-> results, online_count |-> online_count]
    ELSE LET service_key == ServiceKeys[k]
             c == check_service_health(table, service_key, answers[service_key])
         IN  CheckFrom(c.services, answers, k + 1,
                       DictSet(results, service_key, c.result),
                       IF c.result.status = "online"
                       THEN online_count + 1 ELSE online_count)

\* IntegrationService.check_all_services: the table after the call and the
\* dict returned
check_all_services(table, answers, t) ==
    LET c == CheckFrom(table, answers, 1, << >>, 0)
    IN  [services |-> c.services,
         result |->
            [total_services |-> Cardinality(DOMAIN table),
             online_services |-> c.online_count,
             system_status |->
                IF c.online_count = Cardinality(DOMAIN table) THEN "healthy"
                ELSE IF c.online_count > 0 THEN "degraded" ELSE "offline",
             services |-> c.results,
             timestamp |-> isoformat(t)]]

\* IntegrationService.__init__
StatusInit ==
    /\ security_policies =
          [password_min_length |-> password_min_length,
           session_timeout |-> session_timeout,
           max_login_attempts |-> max_login_attempts,
           require_2fa |-> FALSE,
           encryption_algorithm |-> "AES-256"]
    /\ services =
          [service_key \in KeySet |->
              [url |-> <<"http://localhost:", service_key>>, name |-> service_key,
               status |-> "unknown"]]
    /\ audit_log = << >>
    /\ now = 0
    /\ last = [op |-> "", status |-> 0, answers |-> << >>, body |-> << >>]
    /\ pc = Idle
    /\ req = [t \in ThreadIds |-> NoReq]
    /\ loc = [t \in ThreadIds |-> NoLoc]
    /\ resp = [t \in ThreadIds |-> Response("", "", 0, "", NoSession)]

\* GET /system/status; answers is what each service's health request meets
system_status(answers) ==
    /\ LET c == check_all_services(services, answers, now)
       IN  /\ services' = c.services
           /\ last' = [op |-> "system_status", status |-> 200, answers |-> answers,
                       body |-> c.result]
    /\ UNCHANGED <<audit_log, security_policies, now, threadVars>>

\* GET /health of the gateway
gateway_health(answers) ==
    /\ LET c == check_all_services(services, answers, now)
       IN  /\ services' = c.services
           /\ last' = [op |-> "health", status |-> 200, answers |-> answers,
                       body |-> [status |-> "healthy",
                                 services_integrated |-> Cardinality(DOMAIN services),
                                 system_health |-> c.result]]
    /\ UNCHANGED <<audit_log, security_policies, now, threadVars>>

\* GET /services
list_services ==
    /\ last' = [op |-> "services", status |-> 200, answers |-> << >>,
                body |-> [total_services |-> Cardinality(DOMAIN services),
                          services |-> services]]
    /\ UNCHANGED <<sessions, audit_log, security_policies, now, threadVars>>

StatusNext ==
    \/ \E answers \in [KeySet -> Answers] : system_status(answers)
    \/ \E answers \in [KeySet -> Answers] : gateway_health(answers)
    \/ list_services

StatusSpec == StatusInit /\ [][StatusNext]_vars

\* the JSON bodies of a workflow request: an object with or without a type
\* member, an array, or null
TypeValues ==
    {"general", "code_generation", "analysis", "research", "documentation", "other"}
WorkflowBodies ==
    {[kind |-> "object", given |-> TRUE, type |-> v] : v \in TypeValues}
    \cup {[kind |-> "object", given |-> FALSE, type |-> ""],
          [kind |-> "array", given |-> FALSE, type |-> ""],
          [kind |-> "null", given |-> FALSE, type |-> ""]}

\* what a proxied request meets: a JSON answer with status 200 or another
\* status, or no connection
ProxyAnswers == {"json_200", "json_503", "refused"}

\* IntegrationService.proxy_request: raised is the ValueError of an unknown
\* service; any failure of the HTTP call is caught and returned
proxy_request(service_key, endpoint, method, answer) ==
    IF service_key \notin KeySet
    THEN [raised |-> TRUE, success |-> FALSE,
          error |-> <<"Unknown service: ", service_key>>, service |-> service_key]
    ELSE IF method \notin {"GET", "POST"}
    THEN [raised |-> FALSE, success |-> FALSE,
          error |-> <<"Unsupported method: ", method>>, service |-> service_key]
    ELSE IF answer = "refused"
    THEN [raised |-> FALSE, success |-> FALSE,
          error |-> "ConnectionError", service |-> service_key]
    ELSE [raised |-> FALSE, success |-> TRUE,
          status_code |-> status_code(answer),
          data |-> IF answer = "text_200" THEN "text" ELSE "json",
          service |-> service_key]

\* the downstream calls of complete_workflow for a workflow type, in the
\* order of the code
WorkflowCalls(workflow_type) ==
    <<[step |-> "ai_analysis", service |-> "ai_orchestration", endpoint |-> "/health"]>>
    \o (IF workflow_type \in {"code_generation", "analysis"}
        THEN <<[step |-> "cli_operations", service |-> "cli_automation",
                endpoint |-> "/cli/commands"]>>
        ELSE << >>)
    \o (IF workflow_type \in {"research", "documentation"}
        THEN <<[step |-> "web_research", service |-> "browser_control",
                endpoint |-> "/capabilities"]>>
        ELSE << >>)
    \o <<[step |-> "security_validation", service |-> "security",
          endpoint |-> "/security/policies"]>>

\* the try block of complete_workflow from the k-th call on: the steps
\* appended and whether an exception left the block
RECURSIVE RunSteps(_, _, _, _)
RunSteps(calls, answers, k, steps) ==
    IF k > Len(calls) THEN [steps |-> steps, raised |-> FALSE, error |-> << >>]
    ELSE LET result == proxy_request(calls[k].service, calls[k].endpoint, "GET",
                                     answers[calls[k].service])
         IN  IF result.raised
             THEN [steps |-> steps, raised |-> TRUE, error |-> result.error]
             ELSE RunSteps(calls, answers, k + 1,
                           Append(steps,
                                  [step |-> calls[k].step,
                                   status |-> IF result.success THEN "completed"
                                              ELSE "failed",
                                   result |-> result]))

WorkflowInit ==
    /\ security_policies =
          [password_min_length |-> password_min_length,
           session_timeout |-> session_timeout,
           max_login_attempts |-> max_login_attempts,
           require_2fa |-> FALSE,
           encryption_algorithm |-> "AES-256"]
    /\ services =
          [service_key \in KeySet |->
              [url |-> <<"http://localhost:", service_key>>, name |-> service_key,
               status |-> "unknown"]]
    /\ audit_log = << >>
    /\ now = 0
    /\ last = [op |-> "", status |-> 0, data |-> [kind |-> "", given |-> FALSE, type |-> ""],
               answers |-> << >>, error |-> "", body |-> << >>]
    /\ pc = Idle
    /\ req = [t \in ThreadIds |-> NoReq]
    /\ loc = [t \in ThreadIds |-> NoLoc]
    /\ resp = [t \in ThreadIds |-> Response("", "", 0, "", NoSession)]

\* POST /workflow/complete; data is the parsed body and answers what each
\* downstream request meets.  data.get runs before the try block: on a body
\* that is not an object it raises AttributeError, which nothing catches.
complete_workflow(data, answers) ==
    /\ IF data.kind # "object"
       THEN last' = [op |-> "complete_workflow", status |-> 500, data |-> data,
                     answers |-> answers, error |-> "AttributeError", body |-> << >>]
       ELSE LET workflow_type == IF data.given THEN data.type ELSE "general"
                r == RunSteps(WorkflowCalls(workflow_type), answers, 1, << >>)
                workflow_result ==
                    [workflow_id |-> <<"wf_", now>>,
                     type |-> workflow_type,
                     started_at |-> isoformat(now),
                     steps |-> r.steps,
                     status |-> IF r.raised THEN "failed" ELSE "completed"]
            IN  last' = [op |-> "complete_workflow", status |-> 200, data |-> data,
                         answers |-> answers, error |-> "", body |-> workflow_result]
    /\ UNCHANGED <<sessions, audit_log, security_policies, now, threadVars>>

WorkflowNext ==
    \E data \in WorkflowBodies, answers \in [KeySet -> ProxyAnswers] :
        complete_workflow(data, answers)

WorkflowSpec == WorkflowInit /\ [][WorkflowNext]_vars

-----------------------------------------------------------------------------
(* Properties of hash_password (checked under HashSpec) *)

\* C24 as claimed: for every secret and every supplied salt, the empty string
\* included, the record's salt is the supplied salt and two calls with the
\* same secret and salt return the same hash; a fresh salt is generated only
\* when the salt is omitted.
C24_Original ==
    \A t \in ThreadIds :
        (pc[t] = "done" /\ req[t].salt.given)
          => /\ resp[t].salt = req[t].salt.value
             /\ resp[t].salt \notin FreshSalts
             /\ \A u \in ThreadIds :
                  (pc[u] = "done" /\ req[u] = req[t])
                    => resp[u].hash = resp[t].hash

-----------------------------------------------------------------------------
(* Properties of concurrent audit queries (checked under QuerySpec) *)

\* the states the log has been in since log `start` (the log only grows)
LogStatesSince(start) ==
    {SubSeq(audit_log, 1, n) : n \in Len(start)..Len(audit_log)}

\* C21 as claimed: the response of an audit query that ran while events were
\* appended is the answer to the query on one state the log was in during the
\* query: total_events, filtered_events and the events returned are those of
\* that one state, and so filtered_events <= total_events.
C21_Original ==
    \A t \in ThreadIds :
        pc[t] = "done"
          => /\ resp[t].body.filtered_events <= resp[t].body.total_events
             /\ \E log \in LogStatesSince(loc[t].start) :
                  resp[t].body = audit_events(log, req[t].limit, req[t].event_type)

-----------------------------------------------------------------------------
(* Properties of the browser service (checked under BrowserSpec) *)

\* among the calls, id i was created
Created(calls, i) ==
    \E k \in DOMAIN calls : calls[k].op = "create_session" /\ calls[k].id = i

\* among the calls, a navigate of id i was answered with success and no create
\* of i came after it
NavigatedSinceCreate(calls, i) ==
    \E k \in DOMAIN calls :
        /\ calls[k].op = "navigate" /\ calls[k].id = i /\ calls[k].status = 200
        /\ \A j \in (k + 1)..Len(calls) :
             ~(calls[j].op = "create_session" /\ calls[j].id = i)

\* C33: an extract_content of an id succeeds only if a navigate of that id
\* has happened since the most recent create of the id; a create leaves the id
\* with no current URL, also when the id existed; navigate, extract_content and
\* take_screenshot of an id that was never created fail with the not-found
\* error and leave the session table unchanged.
C33_PageLifecycle ==
    [][/\ (last'.op = "extract_content" /\ last'.status = 200)
            => NavigatedSinceCreate(last.calls, last'.id)
       /\ last'.op = "create_session"
            => sessions'[last'.id].current_url = None
       /\ (/\ last'.op \in {"navigate", "extract_content", "take_screenshot"}
           /\ last'.status # 400
           /\ ~Created(last.calls, last'.id))
            => /\ last'.status = 500
               /\ last'.error = NotFound(last'.id)
               /\ sessions' = sessions
      ]_vars

\* C33 witness: an extract succeeded on an id that was created twice and
\* navigated after the second create.
C33_Witness ==
    /\ last.op = "extract_content" /\ last.status = 200
    /\ Len(last.calls) = 4
    /\ last.calls[1].op = "create_session" /\ last.calls[1].id = last.id
    /\ last.calls[2].op = "create_session" /\ last.calls[2].id = last.id
    /\ last.calls[3].op = "navigate" /\ last.calls[3].id = last.id
    /\ last.url = last.calls[3].url

-----------------------------------------------------------------------------
(* Properties of the gateway's status check (checked under StatusSpec) *)

\* the outcome of a health check by what the request met
Outcome(answer) ==
    IF answer = "json_200" THEN "online"
    ELSE IF answer = "json_503" THEN "unhealthy"
    ELSE "offline"

\* C35: after check_all_services (run by the status and the health route)
\* every service's stored status is the outcome of its own health check, which is also the status of its result;
\* online_services is the number of services whose check was online;
\* system_status is healthy exactly when all are online, degraded exactly when
\* some but not all are, offline exactly when none is.
C35_StatusSummary ==
    last.op \in {"system_status", "health"}
      => LET online == {service_key \in KeySet :
                           Outcome(last.answers[service_key]) = "online"}
             summary == IF last.op = "health" THEN last.body.system_health
                        ELSE last.body
         IN  /\ \A service_key \in KeySet :
                  /\ services[service_key].status = Outcome(last.answers[service_key])
                  /\ summary.services[service_key].status
                       = services[service_key].status
             /\ summary.online_services = Cardinality(online)
             /\ summary.system_status = "healthy" <=> online = KeySet
             /\ summary.system_status = "degraded"
                  <=> (online # {} /\ online # KeySet)
             /\ summary.system_status = "offline" <=> online = {}

\* C35 witness: a check that met one service online, one answering 200 with a
\* body that is not JSON, one unhealthy and one unreachable reported degraded.
C35_Witness ==
    /\ last.op = "system_status"
    /\ {last.answers[service_key] : service_key \in KeySet} = Answers
    /\ last.body.system_status = "degraded"
    /\ last.body.online_services = 1

-----------------------------------------------------------------------------
(* Properties of the gateway's workflow (checked under WorkflowSpec) *)

\* the steps of a workflow of the given type, as claimed
StepsOf(workflow_type) ==
    <<"ai_analysis">>
    \o (IF workflow_type \in {"code_generation", "analysis"}
        THEN <<"cli_operations">> ELSE << >>)
    \o (IF workflow_type \in {"research", "documentation"}
        THEN <<"web_research">> ELSE << >>)
    \o <<"security_validation">>

\* C34 as claimed: for every request with a JSON body the workflow runs
\* ai_analysis, cli_operations (types code_generation and analysis),
\* web_research (types research and documentation) and security_validation in
\* that order, a step whose downstream call fails is recorded as failed and
\* the later steps still run, and the workflow ends with security_validation
\* as its last step and status completed.
C34_Original ==
    last.op = "complete_workflow"
      => /\ last.status = 200
         /\ last.body.status = "completed"
         /\ [k \in DOMAIN last.body.steps |-> last.body.steps[k].step]
              = StepsOf(last.body.type)
         /\ last.body.steps[Len(last.body.steps)].step = "security_validation"
         /\ \A k \in DOMAIN last.body.steps :
              last.answers[last.body.steps[k].result.service] = "refused"
                => last.body.steps[k].status = "failed"

-----------------------------------------------------------------------------
(* Properties of concurrent requests (checked under ConcSpec) *)

\* C9 as claimed: when a validate and a logout of the same id run
\* concurrently, the validate ends by returning the session or by failing with
\* "Invalid session" or "Session expired" - never in another fault - and it
\* never refreshes and returns a session after it has left the store.
C9_Original ==
    \A v \in ThreadIds, d \in ThreadIds :
        (/\ req[v].op = "validate" /\ req[d].op = "logout"
         /\ req[v].id = req[d].id /\ pc[v] = "done")
          => /\ resp[v].error \in {"", "Invalid session", "Session expired"}
             /\ ~loc[v].stale

\* no other thread's request concerns the id of thread t's request
Alone(t) == \A u \in ThreadIds \ {t} : req[u].id # req[t].id

\* thread t's request run alone on the entry its id had when it arrived, with
\* the clock readings t made: the response and the entry it leaves
RunAlone(t) ==
    LET i == req[t].id
        l == loc[t]
    IN  CASE req[t].op = "validate" ->
               LET v == validate_session(l.start, i, l.t1, l.t2)
               IN  [status |-> IF v.error = "" THEN 200 ELSE 401,
                    error |-> v.error, session |-> v.session,
                    entry |-> Entry(v.store, i)]
          [] req[t].op = "logout" ->
               LET r == logout_session(l.start, << >>, i, 0, req[t].ctx)
               IN  [status |-> r.status, error |-> r.error, session |-> NoSession,
                    entry |-> Entry(r.store, i)]
          [] OTHER ->
               LET c == create_session(l.start, << >>, i, req[t].user,
                                       GetPermissions(req[t].perm), req[t].ctx,
                                       l.t1, l.t2, l.t3, l.t3)
               IN  [status |-> 200, error |-> "", session |-> c.session,
                    entry |-> Entry(c.store, i)]

\* a finished request on an id no other thread is concerned with has the
\* response and the effect on its own session of the same request run alone
C10_SameAsAlone ==
    \A t \in ThreadIds :
        (pc[t] = "done" /\ req[t].id # "" /\ Alone(t))
          => /\ resp[t].status = RunAlone(t).status
             /\ resp[t].error = RunAlone(t).error
             /\ resp[t].session = RunAlone(t).session
             /\ Entry(sessions, req[t].id) = RunAlone(t).entry

\* a step of a thread leaves the sessions of the other ids as they are
C10_OtherIdsUntouched ==
    \A t \in ThreadIds :
        pc'[t] # pc[t]
          => \A j \in Tokens \ {req'[t].id} : Entry(sessions', j) = Entry(sessions, j)

\* C10: concurrent create / validate / logout on distinct session ids do not
\* interfere: in every interleaving each has the response and the effect on
\* its own session that it has when run alone, and no step of it changes the
\* session of another id.
C10_DistinctIdsIndependent ==
    []C10_SameAsAlone /\ [][C10_OtherIdsUntouched]_vars

\* C10 witness: a validate that succeeded and a login that created a session
\* under another id have both run to the end.
C10_Witness ==
    \E t \in ThreadIds, u \in ThreadIds :
        /\ pc[t] = "done" /\ pc[u] = "done"
        /\ req[t].op = "validate" /\ resp[t].status = 200
        /\ req[u].op = "login" /\ resp[u].status = 200
        /\ req[t].id # req[u].id
        /\ DOMAIN sessions = {req[t].id, req[u].id}
        /\ sessions[req[t].id].last_activity # sessions[req[t].id].created_at

\* two threads have each served a logout of the same id, which was stored
\* when each of the two requests arrived
BothLoggedOut(t, u) ==
    /\ t # u
    /\ pc[t] = "done" /\ pc[u] = "done"
    /\ req[t].op = "logout" /\ req[u].op = "logout"
    /\ req[t].id = req[u].id
    /\ loc[t].start # << >> /\ loc[u].start # << >>

\* C32 as claimed: of two concurrent logouts of the same active session id,
\* exactly one answers success, the other answers "Invalid session", neither
\* ends in an unhandled fault, and one session_destroyed event of the id is
\* appended.
C32_Original ==
    \A t, u \in ThreadIds :
        BothLoggedOut(t, u)
          => /\ {resp[t].status, resp[u].status} = {200, 400}
             /\ \A v \in {t, u} :
                  resp[v].status = 400 => resp[v].error = "Invalid session"
             /\ Cardinality(EventsAbout(audit_log, "session_destroyed", req[t].id)) = 1

=============================================================================
